---------------------------- MODULE Spec2Model ----------------------------
(***************************************************************************)
(* vela: a dual-pane SFTP file manager.  This module models the session /  *)
(* transfer core of src/src/app.rs, src/src/connection/sftp.rs,            *)
(* src/src/transfer/queue.rs and the run loop of src/src/main.rs.          *)
(*                                                                         *)
(* Paths are sequences of names (<<>> is the root "/").  A file's data is   *)
(* the sequence of its 64 KiB chunks, each chunk <<version, length>>.       *)
(* Every fallible call (TCP connect, readdir, open, read, write, unlink,    *)
(* ...) takes its outcome from a small set with \E: the remote side and the *)
(* local disk may fail at any call.                                         *)
(***************************************************************************)
EXTENDS Integers, Sequences, FiniteSets, TLC

\* ------------------------------------------------------------------ bounds
\* Number of progress handles (Arc<Mutex<TransferProgress>>) that can be
\* alive at once; a handle is released when the poll drops it.
MaxHandles == 3
\* Number of SSH sessions that can be open at once.
MaxSessions == 4
\* Longest path, in components, that mkdir can create.
MaxDepth == 1
\* Longest remote_path, in components, that a connection is moved to: a
\* failed listing leaves remote_path moved, so Enter can descend without end.
MaxPathLen == 2

\* --------------------------------------------------------- program constants
\* 64 KiB transfer buffer.
ChunkSize == 65536

\* Option<T>: None is the empty sequence, Some(x) the sequence of x alone.
None == <<>>
Some(x) == <<x>>
IsSome(o) == o # <<>>
Unwrap(o) == o[1]

\* ------------------------------------------------------------------- names
\* Rust compares String values byte by byte; Bytes gives the UTF-8 bytes of
\* every name of the model's universe.
Bytes(n) ==
  CASE n = ".."    -> <<46, 46>>
    [] n = "A"     -> <<65>>
    [] n = "B"     -> <<66>>
    [] n = "a.txt" -> <<97, 46, 116, 120, 116>>
    [] n = "b.txt" -> <<98, 46, 116, 120, 116>>
    [] n = "x"     -> <<120>>
    [] n = "u"     -> <<117>>
    [] n = "vela_edit" -> <<118, 101, 108, 97, 95, 101, 100, 105, 116>>
    [] n = "tmp"   -> <<116, 109, 112>>

RECURSIVE SeqLess(_, _)
\* Lexicographic order of byte sequences (<[u8] as Ord>::cmp = Less).
SeqLess(s, t) ==
  IF t = <<>> THEN FALSE
  ELSE IF s = <<>> THEN TRUE
  ELSE IF Head(s) # Head(t) THEN Head(s) < Head(t)
  ELSE SeqLess(Tail(s), Tail(t))

\* An order of names that ignores the case of ASCII letters.
NameLessIgnoringCase(a, b) ==
  LET lower(s) == [i \in 1..Len(s) |-> IF s[i] \in 65..90 THEN s[i] + 32 ELSE s[i]]
  IN  SeqLess(lower(Bytes(a)), lower(Bytes(b)))

\* <String as Ord>::cmp = Less
NameLess(a, b) == SeqLess(Bytes(a), Bytes(b))

\* ------------------------------------------------------------------- paths
Root == <<>>
HasParent(p) == p # Root
Parent(p) == SubSeq(p, 1, Len(p) - 1)
Join(p, n) == Append(p, n)
FileName(p) == p[Len(p)]

\* ------------------------------------------------------------- file systems
\* A file system maps each existing path to its node.
\* A node: directory or file, the file's chunks and its modification time.
DirNode == [is_dir |-> TRUE, data |-> <<>>, mtime |-> 0]
FileNodeAt(d, t) == [is_dir |-> FALSE, data |-> d, mtime |-> t]
FileNode(d) == FileNodeAt(d, 0)

Exists(fs, p) == p \in DOMAIN fs
IsDir(fs, p) == Exists(fs, p) /\ fs[p].is_dir
IsFile(fs, p) == Exists(fs, p) /\ ~fs[p].is_dir
ChildPaths(fs, p) ==
  {q \in DOMAIN fs : Len(q) = Len(p) + 1 /\ SubSeq(q, 1, Len(p)) = p}

RECURSIVE SumLen(_)
SumLen(d) == IF d = <<>> THEN 0 ELSE Head(d)[2] + SumLen(Tail(d))
\* metadata.len() / stat.size of a file.
FileSize(fs, p) == SumLen(fs[p].data)

\* Removing a path with everything below it.
RemoveTree(fs, p) ==
  LET keep == {q \in DOMAIN fs : ~(Len(q) >= Len(p) /\ SubSeq(q, 1, Len(p)) = p)}
  IN  [q \in keep |-> fs[q]]

\* Creating or overwriting one node.
PutNode(fs, p, node) ==
  [q \in (DOMAIN fs) \cup {p} |-> IF q = p THEN node ELSE fs[q]]

\* The local and the remote home directory, and the trees below them.
LocalHome == <<"u">>
RemoteHome == <<"u">>
\* The process-scoped scratch directory of the F4 edit flow.
TempDir == <<"tmp", "vela_edit">>

\* --------------------------------------------------------------- FileEntry
FileEntry(n, d) == [name |-> n, is_dir |-> d]
DotDot == FileEntry("..", TRUE)

\* sort_by(|a, b| b.is_dir.cmp(&a.is_dir).then(a.name.cmp(&b.name)))
EntryLess(a, b) ==
  \/ a.is_dir /\ ~b.is_dir
  \/ a.is_dir = b.is_dir /\ NameLess(a.name, b.name)

RECURSIVE SortEntries(_)
SortEntries(S) ==
  IF S = {} THEN <<>>
  ELSE LET m == CHOOSE e \in S : \A f \in S \ {e} : EntryLess(e, f)
       IN  <<m>> \o SortEntries(S \ {m})

\* The raw directory children of p as entries.
DirEntries(fs, p) ==
  {FileEntry(FileName(q), fs[q].is_dir) : q \in ChildPaths(fs, p)}


\* ------------------------------------------------------------------- state
VARIABLES
  running,            \* App::running
  status_message,     \* App::status_message (a tag for each message text)
  sftp,               \* App::sftp: None or the live SftpConnection
  left,               \* App::left, the local PanelState
  right,              \* App::right, the remote PanelState
  active,             \* App::active
  upload_progress,    \* App::upload_progress: 0 (None) or a handle
  download_progress,  \* App::download_progress: 0 (None) or a handle
  delete_dialog,      \* App::delete_dialog
  pending_edit,       \* App::pending_edit
  progress,           \* the TransferProgress record behind each handle
  worker,             \* the transfer thread spawned for each handle
  lfs,                \* the local file system
  rfs,                \* the remote file system
  last_call,          \* history: the last foreground handler and the calls it made
  rename_dialog,      \* App::rename_dialog
  mkdir_dialog,       \* App::mkdir_dialog
  env,                \* the process environment: working directory and HOME
  password_dialog,    \* App::password_dialog
  shell_dialog,       \* App::shell_dialog
  profile_dialog      \* App::profile_dialog

vars == <<running, status_message, sftp, left, right, active, upload_progress,
          download_progress, delete_dialog, pending_edit, progress, worker,
          lfs, rfs, last_call, rename_dialog, mkdir_dialog, shell_dialog, profile_dialog, env, password_dialog>>

Handles == 1..MaxHandles
Sids == 1..MaxSessions

Min(a, b) == IF a < b THEN a ELSE b
Max(a, b) == IF a > b THEN a ELSE b
\* usize::saturating_sub
SatSub(a, b) == IF a > b THEN a - b ELSE 0

\* Vec::get with the source's 0-based index, as an Option.
Get(s, i) == IF i >= 0 /\ i < Len(s) THEN Some(s[i + 1]) ELSE None

RECURSIVE SortedIdx(_)
\* indices.sort_unstable() on the marked set.
SortedIdx(S) ==
  IF S = {} THEN <<>>
  ELSE LET m == CHOOSE i \in S : \A j \in S : i <= j
       IN  <<m>> \o SortedIdx(S \ {m})

\* -------------------------------------------------------- TransferProgress
Running == <<"Running">>
Done == <<"Done">>
Failed(msg) == <<"Failed", msg>>
IsFailed(st) == st[1] = "Failed"
IsTerminal(st) == st # Running

\* TransferProgress::new
NewProgress(files_total) ==
  [state |-> Running, current_file |-> "", bytes_done |-> 0, bytes_total |-> 0,
   files_done |-> 0, files_total |-> files_total]

\* A handle slot that holds no record.
NoProgress == [state |-> <<"Free">>, current_file |-> "", bytes_done |-> 0,
               bytes_total |-> 0, files_done |-> 0, files_total |-> 0]

\* --------------------------------------------------------------- PanelState
\* PanelState::new
NewPanel(path) == [path |-> path, entries |-> <<>>, selected |-> 0, marked |-> {}]

\* PanelState::toggle_mark
toggle_mark(p) ==
  LET e == Get(p.entries, p.selected) IN
  IF e = None \/ Unwrap(e).name = ".." THEN p
  ELSE IF p.selected \in p.marked
       THEN [p EXCEPT !.marked = @ \ {p.selected}]
       ELSE [p EXCEPT !.marked = @ \cup {p.selected}]

\* PanelState::mark_all
mark_all(p) ==
  LET eligible == {i \in 0..(Len(p.entries) - 1) : p.entries[i + 1].name # ".."} IN
  IF eligible \subseteq p.marked
  THEN [p EXCEPT !.marked = {}]
  ELSE [p EXCEPT !.marked = @ \cup eligible]

\* PanelState::clear_marks
clear_marks(p) == [p EXCEPT !.marked = {}]

\* PanelState::move_up
move_up(p) == IF p.selected > 0 THEN [p EXCEPT !.selected = @ - 1] ELSE p

\* PanelState::move_down
move_down(p) ==
  IF p.selected + 1 < Len(p.entries) THEN [p EXCEPT !.selected = @ + 1] ELSE p

\* A local load that only replaces the entries and clamps the cursor.
load_local_keeping_marks(p, fs, ok) ==
  LET head == IF HasParent(p.path) THEN <<DotDot>> ELSE <<>> IN
  IF ~ok
  THEN [p EXCEPT !.entries = head]
  ELSE LET es == head \o SortEntries(DirEntries(fs, p.path)) IN
       [p EXCEPT !.entries = es, !.selected = Min(p.selected, SatSub(Len(es), 1))]

\* PanelState::load_local; ok is the outcome of std::fs::read_dir.  On a
\* failed read the early return leaves the cleared list (with "..") behind.
load_local(p, fs, ok) ==
  LET head == IF HasParent(p.path) THEN <<DotDot>> ELSE <<>> IN
  IF ~ok
  THEN [p EXCEPT !.entries = head, !.marked = {}]
  ELSE LET es == head \o SortEntries(DirEntries(fs, p.path)) IN
       [p EXCEPT !.entries = es, !.marked = {},
                 !.selected = Min(p.selected, SatSub(Len(es), 1))]

\* The outcomes std::fs::read_dir(path) can have.
ReadDirOutcomes(fs, path) == IF IsDir(fs, path) THEN BOOLEAN ELSE {FALSE}

\* A remote load that replaces path and entries and keeps the marks.
load_remote_keeping_marks(p, path, entries) ==
  [p EXCEPT !.path = path, !.entries = entries, !.selected = 0]

\* PanelState::load_remote
load_remote(p, path, entries) ==
  [p EXCEPT !.path = path, !.entries = entries, !.selected = 0, !.marked = {}]

\* A file_fraction that reports every file of unknown size as finished.
file_fraction_full(pr) ==
  IF pr.bytes_total = 0 THEN 1000
  ELSE Max(0, Min((pr.bytes_done * 1000) \div pr.bytes_total, 1000))

\* TransferProgress::file_fraction, in thousandths: 0 when bytes_total is 0,
\* else bytes_done / bytes_total clamped to 0..1.
file_fraction(pr) ==
  IF pr.bytes_total = 0 THEN 0
  ELSE Max(0, Min((pr.bytes_done * 1000) \div pr.bytes_total, 1000))

\* TransferProgress::overall_fraction, in thousandths: 1 when files_total is
\* 0, else files_done / files_total clamped to 0..1.
overall_fraction(pr) ==
  IF pr.files_total = 0 THEN 1000
  ELSE Max(0, Min((pr.files_done * 1000) \div pr.files_total, 1000))

\* ----------------------------------------------------------- SftpConnection
\* The live connection: the id of its SSH session and its remote_path.
Conn(sid, path) == [sid |-> sid, remote_path |-> path, home |-> path]

\* A list_dir that puts ".." in front of every listing.
list_dir_with_parent(conn, fs) ==
  <<DotDot>> \o SortEntries(DirEntries(fs, conn.remote_path))

\* SftpConnection::list_dir on a successful readdir.
list_dir(conn, fs) ==
  (IF conn.remote_path # Root THEN <<DotDot>> ELSE <<>>)
    \o SortEntries(DirEntries(fs, conn.remote_path))

\* The outcomes sftp.readdir(path) can have.
ListOutcomes(fs, path) == IF IsDir(fs, path) THEN BOOLEAN ELSE {FALSE}

\* The SSH sessions open right now: the live one and each worker's own.
OpenSids ==
  (IF sftp = None THEN {} ELSE {Unwrap(sftp).sid})
    \cup {worker[h].sid : h \in {g \in Handles : worker[g].sid # 0}}
HasFreeSid == Sids \ OpenSids # {}
\* The id of a session opened now: one that is not open.  The foreground
\* connect takes the smallest free id, a session opened for one transfer the
\* largest.
FreshSid == CHOOSE s \in Sids \ OpenSids : \A t \in Sids \ OpenSids : s <= t
OwnSid == CHOOSE s \in Sids \ OpenSids : \A t \in Sids \ OpenSids : s >= t


\* ---------------------------------------------------------------------- App
\* The process environment: the working directory (None when current_dir()
\* fails) and the HOME variable (None when it is not set).
Env(cwd, home) == [cwd |-> cwd, home |-> home]
\* A process started in the home directory.
HomeEnv == Env(Some(LocalHome), Some(LocalHome))

\* dirs_or_cwd(): std::env::current_dir(), else HOME, else "/".
dirs_or_cwd ==
  IF env.cwd # None THEN Unwrap(env.cwd)
  ELSE IF env.home # None THEN Unwrap(env.home)
  ELSE Root
Cwd == dirs_or_cwd

\* App::is_connected
is_connected == sftp # None
\* App::is_uploading
is_uploading == upload_progress # 0
\* App::is_downloading
is_downloading == download_progress # 0
\* App::is_transferring
is_transferring == is_uploading \/ is_downloading

\* handle_events dispatches a key to handle_main_key only when no dialog is
\* open; the run loop handles no event while the editor of a pending edit runs.
MainContext ==
  /\ running
  /\ password_dialog = None /\ delete_dialog = None /\ rename_dialog = None
  /\ mkdir_dialog = None /\ shell_dialog = None /\ profile_dialog = None
  /\ pending_edit = None

\* A status line: the tag of its text, the two counts of the delete summary
\* and the name or error the text quotes.
StatusLine(tag, n, total, name) == [tag |-> tag, n |-> n, total |-> total, name |-> name]
Msg(tag) == StatusLine(tag, 0, 0, "")
\* status_message: None
NoMessage == Msg("")

\* The history variable: the handler that ran last, the strings it was given
\* (for a call on the connection, followed by the remote_path it was called
\* in) and the calls it made.
CallOn(op, arg, trace) == [op |-> op, arg |-> arg, trace |-> trace]
Call(op, trace) == CallOn(op, <<>>, trace)
\* One call: its name, the entry it is about, the session it runs on (0: none)
\* and whether it succeeded.
Ev(call, name, sid, ok) == [call |-> call, name |-> name, sid |-> sid, ok |-> ok]

\* A handle slot is free when no thread runs on it and the App holds no
\* reference to it.
NoWorker == [kind |-> "none", pc |-> "none", sid |-> 0, todo |-> <<>>,
             cur |-> <<>>, dst |-> <<>>, data |-> <<>>, total |-> 0,
             result |-> "none", done |-> <<>>, tried |-> <<>>,
             roots |-> <<>>, existed |-> FALSE, skipped |-> FALSE]
FreeHandles ==
  {h \in Handles : worker[h] = NoWorker /\ upload_progress # h /\ download_progress # h}
FreshHandle == CHOOSE h \in FreeHandles : \A g \in FreeHandles : h <= g

\* A thread that is handed the entries last to first.
SpawnWorkerReversed(kind, entries, src_dir, dst_dir) ==
  [NoWorker EXCEPT
     !.kind = kind, !.pc = "connect",
     !.roots = [i \in 1..Len(entries) |-> Join(src_dir, entries[i].name)],
     !.todo = [i \in 1..Len(entries) |->
                 [src |-> Join(src_dir, entries[Len(entries) + 1 - i].name),
                  dst |-> dst_dir, top |-> TRUE,
                  is_dir |-> entries[Len(entries) + 1 - i].is_dir]]]

\* The thread std::thread::spawn starts for a batch: its entries become the
\* work list, each with the directory it is read from and written to.
SpawnWorker(kind, entries, src_dir, dst_dir) ==
  [NoWorker EXCEPT
     !.kind = kind, !.pc = "connect",
     !.roots = [i \in 1..Len(entries) |-> Join(src_dir, entries[i].name)],
     !.todo = [i \in 1..Len(entries) |->
                 [src |-> Join(src_dir, entries[i].name), dst |-> dst_dir,
                  top |-> TRUE, is_dir |-> entries[i].is_dir]]]

\* A batch that takes the highlighted or the marked entries as they are.
BatchEntriesUnfiltered(p) ==
  IF p.marked = {}
  THEN LET e == Get(p.entries, p.selected) IN
       IF e # None THEN <<Unwrap(e)>> ELSE <<>>
  ELSE LET idx == SortedIdx(p.marked)
           got == SelectSeq(idx, LAMBDA i : Get(p.entries, i) # None)
       IN  [k \in 1..Len(got) |-> p.entries[got[k] + 1]]

\* start_upload / start_download: the entries of a batch, or <<>> when the
\* handler returns early.  Marked entries in ascending index order, else the
\* highlighted entry, never "..".
BatchEntries(p) ==
  IF p.marked = {}
  THEN LET e == Get(p.entries, p.selected) IN
       IF e # None /\ Unwrap(e).name # ".." THEN <<Unwrap(e)>> ELSE <<>>
  ELSE LET idx == SortedIdx(p.marked)
           got == SelectSeq(idx, LAMBDA i : Get(p.entries, i) # None)
           es  == [k \in 1..Len(got) |-> p.entries[got[k] + 1]]
       IN  SelectSeq(es, LAMBDA e : e.name # "..")

RECURSIVE CountFiles(_, _)
\* connection::sftp::count_files on the local tree.
CountFiles(fs, p) ==
  IF IsFile(fs, p) THEN 1
  ELSE IF ~IsDir(fs, p) THEN 0
  ELSE LET kids == ChildPaths(fs, p)
           Sum[S \in SUBSET kids] ==
             IF S = {} THEN 0
             ELSE LET k == CHOOSE k \in S : TRUE
                  IN  CountFiles(fs, k) + Sum[S \ {k}]
       IN  Sum[kids]

RECURSIVE TotalFiles(_, _, _)
TotalFiles(fs, dir, entries) ==
  IF entries = <<>> THEN 0
  ELSE CountFiles(fs, Join(dir, Head(entries).name)) + TotalFiles(fs, dir, Tail(entries))

\* App::do_connect for a profile without start paths.  ok is the outcome of
\* SftpConnection::connect, ls_ok that of the first list_dir.
DoConnect ==
  /\ MainContext
  /\ \E ok \in BOOLEAN, ls_ok \in ListOutcomes(rfs, RemoteHome) :
       IF ok
       THEN /\ HasFreeSid
            /\ LET sid  == FreshSid
                   conn == Conn(sid, RemoteHome)
               IN  /\ sftp' = Some(conn)
                   /\ IF ls_ok
                      THEN /\ right' = load_remote(right, conn.remote_path, list_dir(conn, rfs))
                           /\ status_message' = Msg("Verbunden")
                      ELSE /\ right' = right
                           /\ status_message' = Msg("Verbindung ok, Listing fehlgeschlagen")
                   /\ last_call' = Call("do_connect", <<Ev("connect", "", sid, TRUE)>>)
       ELSE /\ ls_ok = FALSE
            /\ status_message' = Msg("Verbindung fehlgeschlagen")
            /\ last_call' = Call("do_connect", <<Ev("connect", "", 0, FALSE)>>)
            /\ UNCHANGED <<sftp, right>>
  /\ UNCHANGED <<running, rename_dialog, mkdir_dialog, shell_dialog, profile_dialog, env, password_dialog, left, active, upload_progress, download_progress,
                 delete_dialog, pending_edit, progress, worker, lfs, rfs>>

\* App::disconnect
disconnect ==
  /\ sftp' = None
  /\ right' = NewPanel(Cwd)
  /\ status_message' = Msg("Verbindung getrennt")
  /\ last_call' = Call("disconnect", <<>>)
  /\ UNCHANGED <<running, rename_dialog, mkdir_dialog, shell_dialog, profile_dialog, env, password_dialog, left, active, upload_progress, download_progress,
                 delete_dialog, pending_edit, progress, worker, lfs, rfs>>

\* handle_main_key, F3: disconnect, only when connected.
KeyF3 ==
  /\ MainContext
  /\ is_connected
  /\ disconnect

\* App::quit, on F10 or q: the run loop ends and the process exits.
Quit ==
  /\ MainContext
  /\ sftp' = None
  /\ running' = FALSE
  /\ last_call' = Call("quit", <<>>)
  /\ UNCHANGED <<rename_dialog, mkdir_dialog, shell_dialog, profile_dialog, env, password_dialog, status_message, left, right,
                 active, upload_progress, download_progress, delete_dialog,
                 pending_edit, progress, worker, lfs, rfs>>


\* ------------------------------------------------------- starting a transfer
\* A start_upload that only asks for a live session.
UploadRejectedUnlessConnected == ~is_connected

\* start_upload returns before doing anything (app.rs 866-868).
UploadRejected == ~is_connected \/ is_uploading

\* start_download returns before doing anything (app.rs 972-974).
DownloadRejected == ~is_connected \/ is_transferring

\* App::start_upload
start_upload ==
  LET entries == BatchEntries(left) IN
  IF UploadRejected \/ entries = <<>>
  THEN /\ last_call' = Call("start_upload", <<>>)
       /\ UNCHANGED <<running, rename_dialog, mkdir_dialog, shell_dialog, profile_dialog, env, password_dialog, status_message, sftp, left, right, active,
                      upload_progress, download_progress, delete_dialog,
                      pending_edit, progress, worker, lfs, rfs>>
  ELSE /\ FreeHandles # {}
       /\ LET h == FreshHandle
              total_files == Max(TotalFiles(lfs, left.path, entries), 1)
          IN  /\ progress' = [progress EXCEPT ![h] = NewProgress(total_files)]
              /\ worker' = [worker EXCEPT
                              ![h] = SpawnWorker("up", entries, left.path, right.path)]
              /\ upload_progress' = h
              /\ last_call' = Call("start_upload", <<Ev("spawn", "", 0, TRUE)>>)
       /\ status_message' = Msg("Uploading")
       /\ left' = clear_marks(left)
       /\ UNCHANGED <<running, rename_dialog, mkdir_dialog, shell_dialog, profile_dialog, env, password_dialog, sftp, right, active, download_progress,
                      delete_dialog, pending_edit, lfs, rfs>>

\* App::start_download
start_download ==
  LET entries == BatchEntries(right) IN
  IF DownloadRejected \/ entries = <<>>
  THEN /\ last_call' = Call("start_download", <<>>)
       /\ UNCHANGED <<running, rename_dialog, mkdir_dialog, shell_dialog, profile_dialog, env, password_dialog, status_message, sftp, left, right, active,
                      upload_progress, download_progress, delete_dialog,
                      pending_edit, progress, worker, lfs, rfs>>
  ELSE /\ FreeHandles # {}
       /\ LET h == FreshHandle
          IN  /\ progress' = [progress EXCEPT ![h] = NewProgress(1)]
              /\ worker' = [worker EXCEPT
                              ![h] = SpawnWorker("down", entries, right.path, left.path)]
              /\ download_progress' = h
              /\ last_call' = Call("start_download", <<Ev("spawn", "", 0, TRUE)>>)
       /\ status_message' = Msg("Downloading")
       /\ right' = clear_marks(right)
       /\ UNCHANGED <<running, rename_dialog, mkdir_dialog, shell_dialog, profile_dialog, env, password_dialog, sftp, left, active, upload_progress,
                      delete_dialog, pending_edit, lfs, rfs>>

\* An F5 that asks only for the connection before it calls start_upload.
KeyF5WhileDownloading ==
  /\ MainContext
  /\ IF is_connected
     THEN start_upload
     ELSE /\ last_call' = Call("F5", <<>>)
          /\ UNCHANGED <<running, rename_dialog, mkdir_dialog, shell_dialog, profile_dialog, env, password_dialog, status_message, sftp, left, right, active,
                         upload_progress, download_progress, delete_dialog,
                         pending_edit, progress, worker, lfs, rfs>>

\* handle_main_key, F5
KeyF5 ==
  /\ MainContext
  /\ IF is_connected /\ ~is_transferring
     THEN start_upload
     ELSE /\ last_call' = Call("F5", <<>>)
          /\ UNCHANGED <<running, rename_dialog, mkdir_dialog, shell_dialog, profile_dialog, env, password_dialog, status_message, sftp, left, right, active,
                         upload_progress, download_progress, delete_dialog,
                         pending_edit, progress, worker, lfs, rfs>>

\* handle_main_key, F6
KeyF6 ==
  /\ MainContext
  /\ IF is_connected /\ ~is_transferring
     THEN start_download
     ELSE /\ last_call' = Call("F6", <<>>)
          /\ UNCHANGED <<running, rename_dialog, mkdir_dialog, shell_dialog, profile_dialog, env, password_dialog, status_message, sftp, left, right, active,
                         upload_progress, download_progress, delete_dialog,
                         pending_edit, progress, worker, lfs, rfs>>

\* ---------------------------------------------------------------- the polls
\* Dropping the App's reference to handle h: the record and the exited
\* thread behind it are gone.
\* A poll that writes the record back to its initial values and leaves it in
\* place.
ResetProgress(h) == [progress EXCEPT ![h] = NewProgress(1)]
ReleasedProgress(h) == [progress EXCEPT ![h] = NoProgress]
ReleasedWorker(h) ==
  IF worker[h].pc = "exit" THEN [worker EXCEPT ![h] = NoWorker] ELSE worker

\* App::poll_upload, once per frame of the run loop.
poll_upload ==
  /\ running /\ pending_edit = None
  /\ upload_progress # 0
  /\ LET h == upload_progress
         state == progress[h].state
     IN  IF state = Running
         THEN UNCHANGED vars
         ELSE /\ upload_progress' = 0
              /\ progress' = ReleasedProgress(h)
              /\ worker' = ReleasedWorker(h)
              /\ IF state = Done
                 THEN IF sftp # None
                      THEN \E ls_ok \in ListOutcomes(rfs, Unwrap(sftp).remote_path) :
                             IF ls_ok
                             THEN /\ right' = load_remote(right, Unwrap(sftp).remote_path,
                                                          list_dir(Unwrap(sftp), rfs))
                                  /\ status_message' = Msg("Upload abgeschlossen")
                                  /\ last_call' = Call("poll_upload",
                                       <<Ev("list_dir", "", Unwrap(sftp).sid, TRUE)>>)
                             ELSE /\ right' = right
                                  /\ status_message' = Msg("Remote-Aktualisierung fehlgeschlagen")
                                  /\ last_call' = Call("poll_upload",
                                       <<Ev("list_dir", "", Unwrap(sftp).sid, FALSE)>>)
                      ELSE /\ right' = right
                           /\ status_message' = Msg("Upload abgeschlossen")
                           /\ last_call' = Call("poll_upload", <<>>)
                 ELSE /\ right' = right
                      /\ status_message' = StatusLine("Upload fehlgeschlagen", 0, 0, state[2])
                      /\ last_call' = Call("poll_upload", <<>>)
              /\ UNCHANGED <<running, rename_dialog, mkdir_dialog, shell_dialog, profile_dialog, env, password_dialog, sftp, left, active, download_progress,
                             delete_dialog, pending_edit, lfs, rfs>>

\* A poll that re-reads the local directory after every batch that ended,
\* failed ones included.
poll_download_refreshing ==
  /\ running /\ pending_edit = None
  /\ download_progress # 0
  /\ LET h == download_progress
         state == progress[h].state
     IN  IF state = Running
         THEN UNCHANGED vars
         ELSE /\ download_progress' = 0
              /\ progress' = ReleasedProgress(h)
              /\ worker' = ReleasedWorker(h)
              /\ \E rd_ok \in ReadDirOutcomes(lfs, left.path) :
                   /\ left' = load_local(left, lfs, rd_ok)
                   /\ status_message' =
                        IF state = Done
                        THEN Msg("Download abgeschlossen")
                        ELSE StatusLine("Download fehlgeschlagen", 0, 0, state[2])
                   /\ last_call' = Call("poll_download",
                                        <<Ev("load_local", "", 0, rd_ok)>>)
              /\ UNCHANGED <<running, rename_dialog, mkdir_dialog, shell_dialog, profile_dialog, env, password_dialog, sftp, right, active, upload_progress,
                             delete_dialog, pending_edit, lfs, rfs>>

\* App::poll_download, once per frame of the run loop.
poll_download ==
  /\ running /\ pending_edit = None
  /\ download_progress # 0
  /\ LET h == download_progress
         state == progress[h].state
     IN  IF state = Running
         THEN UNCHANGED vars
         ELSE /\ download_progress' = 0
              /\ progress' = ReleasedProgress(h)
              /\ worker' = ReleasedWorker(h)
              /\ IF state = Done
                 THEN \E rd_ok \in ReadDirOutcomes(lfs, left.path) :
                        /\ left' = load_local(left, lfs, rd_ok)
                        /\ status_message' = IF rd_ok THEN Msg("Download abgeschlossen")
                                             ELSE Msg("Lokale Aktualisierung fehlgeschlagen")
                        /\ last_call' = Call("poll_download",
                                             <<Ev("load_local", "", 0, rd_ok)>>)
                 ELSE /\ left' = left
                      /\ status_message' = StatusLine("Download fehlgeschlagen", 0, 0, state[2])
                      /\ last_call' = Call("poll_download", <<>>)
              /\ UNCHANGED <<running, rename_dialog, mkdir_dialog, shell_dialog, profile_dialog, env, password_dialog, sftp, right, active, upload_progress,
                             delete_dialog, pending_edit, lfs, rfs>>


\* ------------------------------------------------------ the transfer thread
\* upload_batch and download_batch run on a thread of their own.  A thread
\* is a step machine: pc names the next call, todo the entries and directory
\* children still to visit (the pending part of the depth-first recursion),
\* cur/dst the file or directory in hand, data the chunks still to stream.
\* tried and done list the files whose transfer was started and completed,
\* roots the paths of the entries the batch was given; existed tells that a
\* mkdir / create_dir of the batch was answered "already exists", skipped
\* that a directory listing left out a child whose entry could not be read.
\* Only the progress record and the outcome of every I/O call are modelled:
\* the bytes written to the destination tree are not.
Src(h) == IF worker[h].kind = "up" THEN lfs ELSE rfs

\* All orders in which readdir / read_dir can return the children S.
Orders(S) ==
  {o \in [1..Cardinality(S) -> S] : \A i, j \in 1..Cardinality(S) : o[i] = o[j] => i = j}

\* A thread that drops the error of an entry and goes on with the next one.
FailSwallowed(w, err) == [w EXCEPT !.pc = "loop"]

\* The thread ends the closure with Err(e): nothing else is attempted.
Fail(w, err) == [w EXCEPT !.result = err, !.pc = "final"]

\* A batch that runs on the session of the foreground.
BatchOnLiveSession == IF sftp # None THEN Unwrap(sftp).sid ELSE OwnSid

\* The session a batch runs on: upload_batch and download_batch open a TCP
\* stream and an SSH session of their own (sftp.rs 243-252, 401-410).
BatchSid == OwnSid

\* A download thread that starts its loop right after the session is up.
WConnectThenLoop(h) ==
  /\ running
  /\ worker[h].pc = "connect"
  /\ \E out \in {"ok", "tcp", "auth"} :
       IF out = "ok"
       THEN /\ HasFreeSid
            /\ worker' = [worker EXCEPT ![h].sid = BatchSid, ![h].pc = "loop"]
       ELSE worker' = [worker EXCEPT ![h] = Fail(@, out)]
  /\ UNCHANGED <<running, rename_dialog, mkdir_dialog, shell_dialog, profile_dialog, env, password_dialog, status_message, sftp, left, right, active,
                 upload_progress, download_progress, delete_dialog,
                 pending_edit, progress, lfs, rfs, last_call>>

\* TcpStream::connect, handshake, authenticate, session.sftp().
WConnect(h) ==
  /\ running
  /\ worker[h].pc = "connect"
  /\ \E out \in {"ok", "tcp", "auth"} :
       IF out = "ok"
       THEN /\ HasFreeSid
            /\ worker' = [worker EXCEPT
                            ![h].sid = BatchSid,
                            ![h].pc = IF worker[h].kind = "up" THEN "loop" ELSE "count"]
       ELSE worker' = [worker EXCEPT ![h] = Fail(@, out)]
  /\ UNCHANGED <<running, rename_dialog, mkdir_dialog, shell_dialog, profile_dialog, env, password_dialog, status_message, sftp, left, right, active,
                 upload_progress, download_progress, delete_dialog,
                 pending_edit, progress, lfs, rfs, last_call>>

RECURSIVE CountSftp(_, _, _)
\* count_sftp_files; bad are the paths whose stat or readdir fails.
CountSftp(fs, p, bad) ==
  IF p \in bad \/ ~Exists(fs, p) THEN 0
  ELSE IF ~fs[p].is_dir THEN 1
  ELSE LET kids == ChildPaths(fs, p)
           Sum[S \in SUBSET kids] ==
             IF S = {} THEN 0
             ELSE LET k == CHOOSE k \in S : TRUE
                  IN  CountSftp(fs, k, bad) + Sum[S \ {k}]
       IN  Sum[kids]

RECURSIVE TotalSftp(_, _, _)
TotalSftp(fs, todo, bad) ==
  IF todo = <<>> THEN 0
  ELSE CountSftp(fs, Head(todo).src, bad) + TotalSftp(fs, Tail(todo), bad)

\* download_batch: the upfront count (sftp.rs 412-421).
WCount(h) ==
  /\ running
  /\ worker[h].pc = "count"
  /\ \E bad \in SUBSET (DOMAIN rfs) :
       progress' = [progress EXCEPT
                      ![h].files_total = Max(TotalSftp(rfs, worker[h].todo, bad), 1)]
  /\ worker' = [worker EXCEPT ![h].pc = "loop"]
  /\ UNCHANGED <<running, rename_dialog, mkdir_dialog, shell_dialog, profile_dialog, env, password_dialog, status_message, sftp, left, right, active,
                 upload_progress, download_progress, delete_dialog,
                 pending_edit, lfs, rfs, last_call>>

\* The head of the batch loop and of the loops of upload_dir_recursive and
\* download_dir_recursive: take the next entry and look at what it is.
\* A top-level entry is first checked against a Failed state (sftp.rs 256-261,
\* 426-431); download_batch then stats it (sftp.rs 433-435).
WLoop(h) ==
  /\ running
  /\ worker[h].pc = "loop"
  /\ LET w == worker[h] IN
     IF w.todo = <<>>
     THEN worker' = [worker EXCEPT ![h].result = "ok", ![h].pc = "final"]
     ELSE LET it == Head(w.todo) IN
          IF it.top /\ IsFailed(progress[h].state)
          THEN worker' = [worker EXCEPT ![h].result = "ok", ![h].pc = "final"]
          ELSE \E stat_ok \in (IF w.kind = "down" /\ it.top /\ Exists(rfs, it.src)
                               THEN BOOLEAN
                               ELSE {~(w.kind = "down" /\ it.top)}) :
                 IF ~stat_ok
                 THEN worker' = [worker EXCEPT ![h] = Fail(@, "path")]
                 ELSE LET dir == IF w.kind = "up" \/ it.top
                                 THEN IsDir(Src(h), it.src)
                                 ELSE it.is_dir
                      IN  worker' = [worker EXCEPT
                                       ![h].todo = Tail(w.todo),
                                       ![h].cur = it.src,
                                       ![h].dst = it.dst,
                                       ![h].pc = IF dir THEN "dir" ELSE "file"]
  /\ UNCHANGED <<running, rename_dialog, mkdir_dialog, shell_dialog, profile_dialog, env, password_dialog, status_message, sftp, left, right, active,
                 upload_progress, download_progress, delete_dialog,
                 pending_edit, progress, lfs, rfs, last_call>>

\* What the loop over a directory gets to see.  upload_dir_recursive walks
\* read_dir.filter_map(|e| e.ok()) (sftp.rs 373): a child whose entry cannot
\* be read is left out without an error.  sftp.readdir returns all children
\* or fails as a whole.
Listed(kind, kids) ==
  IF kind = "up"
  THEN UNION {Orders(T) : T \in SUBSET kids}
  ELSE Orders(kids)

\* A directory step that takes every answer of mkdir other than Ok as a
\* failure of the batch.
WDirStrict(h) ==
  /\ running
  /\ worker[h].pc = "dir"
  /\ LET w == worker[h]
         new_dst == Join(w.dst, FileName(w.cur))
         kids == ChildPaths(Src(h), w.cur)
     IN  \E mk \in {"ok", "exists", "err"},
            rd_ok \in (IF IsDir(Src(h), w.cur) THEN BOOLEAN ELSE {FALSE}) :
           IF mk # "ok"
           THEN worker' = [worker EXCEPT
                  ![h] = Fail([@ EXCEPT !.existed = @ \/ mk = "exists"],
                              IF w.kind = "up" THEN "path" ELSE "tcp")]
           ELSE IF ~rd_ok
           THEN worker' = [worker EXCEPT ![h] = Fail(@, IF w.kind = "up" THEN "tcp" ELSE "path")]
           ELSE \E o \in Listed(w.kind, kids) :
                  worker' = [worker EXCEPT
                    ![h].todo = [i \in 1..Len(o) |->
                                   [src |-> o[i], dst |-> new_dst, top |-> FALSE,
                                    is_dir |-> Src(h)[o[i]].is_dir]] \o w.todo,
                    ![h].skipped = @ \/ Len(o) < Cardinality(kids),
                    ![h].pc = "loop"]
  /\ UNCHANGED <<running, rename_dialog, mkdir_dialog, shell_dialog, profile_dialog, env, password_dialog, status_message, sftp, left, right, active,
                 upload_progress, download_progress, delete_dialog,
                 pending_edit, progress, lfs, rfs, last_call>>

\* upload_dir_recursive / download_dir_recursive up to their loop: create the
\* destination directory ("already exists" is not an error) and read the
\* source directory.
WDir(h) ==
  /\ running
  /\ worker[h].pc = "dir"
  /\ LET w == worker[h]
         new_dst == Join(w.dst, FileName(w.cur))
         kids == ChildPaths(Src(h), w.cur)
     IN  \E mk \in {"ok", "exists", "err"},
            rd_ok \in (IF IsDir(Src(h), w.cur) THEN BOOLEAN ELSE {FALSE}) :
           IF mk = "err"
           THEN worker' = [worker EXCEPT ![h] = Fail(@, IF w.kind = "up" THEN "path" ELSE "tcp")]
           ELSE IF ~rd_ok
           THEN worker' = [worker EXCEPT
                  ![h] = Fail([@ EXCEPT !.existed = @ \/ mk = "exists"],
                              IF w.kind = "up" THEN "tcp" ELSE "path")]
           ELSE \E o \in Listed(w.kind, kids) :
                  worker' = [worker EXCEPT
                    ![h].todo = [i \in 1..Len(o) |->
                                   [src |-> o[i], dst |-> new_dst, top |-> FALSE,
                                    is_dir |-> Src(h)[o[i]].is_dir]] \o w.todo,
                    ![h].existed = @ \/ mk = "exists",
                    ![h].skipped = @ \/ Len(o) < Cardinality(kids),
                    ![h].pc = "loop"]
  /\ UNCHANGED <<running, rename_dialog, mkdir_dialog, shell_dialog, profile_dialog, env, password_dialog, status_message, sftp, left, right, active,
                 upload_progress, download_progress, delete_dialog,
                 pending_edit, progress, lfs, rfs, last_call>>


\* upload_file / download_file up to the first progress write.  upload_file
\* fails when the local metadata cannot be read (sftp.rs 310); download_file
\* takes the remote size best-effort, 0 when unknown (sftp.rs 490-494).
WFileBegin(h) ==
  /\ running
  /\ worker[h].pc = "file"
  /\ LET w == worker[h]
         name == FileName(w.cur)
     IN  \E meta_ok \in (IF Exists(Src(h), w.cur) THEN BOOLEAN ELSE {FALSE}) :
           IF w.kind = "up" /\ ~meta_ok
           THEN /\ worker' = [worker EXCEPT ![h] = Fail([@ EXCEPT !.tried = Append(@, w.cur)], "tcp")]
                /\ progress' = progress
           ELSE LET total == IF meta_ok THEN FileSize(Src(h), w.cur) ELSE 0 IN
                /\ worker' = [worker EXCEPT ![h].total = total,
                                            ![h].tried = Append(@, w.cur),
                                            ![h].pc = "open"]
                /\ progress' = [progress EXCEPT ![h].current_file = name,
                                                ![h].bytes_done = 0,
                                                ![h].bytes_total = total]
  /\ UNCHANGED <<running, rename_dialog, mkdir_dialog, shell_dialog, profile_dialog, env, password_dialog, status_message, sftp, left, right, active,
                 upload_progress, download_progress, delete_dialog,
                 pending_edit, lfs, rfs, last_call>>

\* Opening both ends (sftp.rs 320-328, 503-507): the source for reading, the
\* destination with create and truncate.
WFileOpen(h) ==
  /\ running
  /\ worker[h].pc = "open"
  /\ LET w == worker[h] IN
     \E out \in (IF IsFile(Src(h), w.cur) THEN {"ok", "tcp", "path"}
                 ELSE IF w.kind = "up" THEN {"tcp"} ELSE {"path"}) :
       IF out = "ok"
       THEN worker' = [worker EXCEPT ![h].data = Src(h)[w.cur].data, ![h].pc = "chunks"]
       ELSE worker' = [worker EXCEPT ![h] = Fail(@, out)]
  /\ UNCHANGED <<running, rename_dialog, mkdir_dialog, shell_dialog, profile_dialog, env, password_dialog, status_message, sftp, left, right, active,
                 upload_progress, download_progress, delete_dialog,
                 pending_edit, progress, lfs, rfs, last_call>>

\* A count of bytes that is never clamped to the size of the file.
BytesAfterUnclamped(kind, bytes_done, n, total) == bytes_done + n

\* bytes_done after a chunk of n bytes (sftp.rs 341, 520-524).
BytesAfter(kind, bytes_done, n, total) ==
  IF kind = "up" \/ total > 0
  THEN Min(bytes_done + n, total)
  ELSE bytes_done + n

\* One round of the chunk loop: read up to 64 KiB, write them, update
\* bytes_done under the lock.
WChunk(h) ==
  /\ running
  /\ worker[h].pc = "chunks"
  /\ worker[h].data # <<>>
  /\ LET w == worker[h]
         n == Head(w.data)[2]
     IN  \E out \in {"ok", "tcp", "path"} :
           IF out = "ok"
           THEN /\ worker' = [worker EXCEPT ![h].data = Tail(@)]
                /\ progress' = [progress EXCEPT
                     ![h].bytes_done = BytesAfter(w.kind, @, n, w.total)]
           ELSE /\ worker' = [worker EXCEPT ![h] = Fail(@, out)]
                /\ progress' = progress
  /\ UNCHANGED <<running, rename_dialog, mkdir_dialog, shell_dialog, profile_dialog, env, password_dialog, status_message, sftp, left, right, active,
                 upload_progress, download_progress, delete_dialog,
                 pending_edit, lfs, rfs, last_call>>

\* The read that returns 0 ends the loop; files_done += 1 (sftp.rs 344-347,
\* 527-530).
WFileEnd(h) ==
  /\ running
  /\ worker[h].pc = "chunks"
  /\ worker[h].data = <<>>
  /\ \E read_ok \in BOOLEAN :
       IF read_ok
       THEN /\ worker' = [worker EXCEPT ![h].done = Append(@, worker[h].cur),
                                        ![h].pc = "loop"]
            /\ progress' = [progress EXCEPT ![h].files_done = @ + 1]
       ELSE /\ worker' = [worker EXCEPT
                            ![h] = Fail(@, IF worker[h].kind = "up" THEN "tcp" ELSE "path")]
            /\ progress' = progress
  /\ UNCHANGED <<running, rename_dialog, mkdir_dialog, shell_dialog, profile_dialog, env, password_dialog, status_message, sftp, left, right, active,
                 upload_progress, download_progress, delete_dialog,
                 pending_edit, lfs, rfs, last_call>>

\* The state the thread writes last (sftp.rs 272-282, 445-455).
FinalState(state, result) ==
  IF result = "ok"
  THEN IF state = Running THEN Done ELSE state
  ELSE Failed(result)

\* A thread that writes the state of a failed entry inside the loop and
\* goes on with the entries that are left.
WFinalInLoop(h) ==
  /\ running
  /\ worker[h].pc = "final"
  /\ progress' = [progress EXCEPT ![h].state = FinalState(@, worker[h].result)]
  /\ worker' = [worker EXCEPT
                  ![h].pc = IF worker[h].todo = <<>> THEN "exit" ELSE "loop",
                  ![h].sid = IF worker[h].todo = <<>> THEN 0 ELSE @]
  /\ UNCHANGED <<running, rename_dialog, mkdir_dialog, shell_dialog, profile_dialog, env, password_dialog, status_message, sftp, left, right, active,
                 upload_progress, download_progress, delete_dialog,
                 pending_edit, lfs, rfs, last_call>>

\* A thread that answers an error by opening a new session and going on,
\* and writes its final state only after a run without error.
WFinalRetrying(h) ==
  /\ running
  /\ worker[h].pc = "final"
  /\ IF worker[h].result = "ok"
     THEN /\ progress' = [progress EXCEPT ![h].state = FinalState(@, worker[h].result)]
          /\ worker' = [worker EXCEPT ![h].pc = "exit", ![h].sid = 0]
     ELSE /\ progress' = progress
          /\ worker' = [worker EXCEPT ![h].pc = "connect", ![h].sid = 0,
                                      ![h].result = "none"]
  /\ UNCHANGED <<running, rename_dialog, mkdir_dialog, shell_dialog, profile_dialog, env, password_dialog, status_message, sftp, left, right, active,
                 upload_progress, download_progress, delete_dialog,
                 pending_edit, lfs, rfs, last_call>>

\* The end of upload_batch / download_batch: the session is dropped with the
\* closure, the final state is written under the lock, the thread exits.
WFinal(h) ==
  /\ running
  /\ worker[h].pc = "final"
  /\ progress' = [progress EXCEPT ![h].state = FinalState(@, worker[h].result)]
  /\ worker' = [worker EXCEPT ![h].pc = "exit", ![h].sid = 0]
  /\ UNCHANGED <<running, rename_dialog, mkdir_dialog, shell_dialog, profile_dialog, env, password_dialog, status_message, sftp, left, right, active,
                 upload_progress, download_progress, delete_dialog,
                 pending_edit, lfs, rfs, last_call>>

WorkerStep(h) ==
  \/ WConnect(h)
  \/ WCount(h)
  \/ WLoop(h)
  \/ WDir(h)
  \/ WFileBegin(h)
  \/ WFileOpen(h)
  \/ WChunk(h)
  \/ WFileEnd(h)
  \/ WFinal(h)

\* --------------------------------------------------------------- delete (F8)
\* The outcome of one call on a file system: the tree it leaves, whether it
\* returned Ok, and the paths it removed, in order.
Outcome(fs, ok, log) == [fs |-> fs, ok |-> ok, log |-> log]

\* sftp.unlink / std::fs::remove_file on path p.
Unlink(fs, p) ==
  {Outcome(fs, FALSE, <<>>)}
    \cup (IF IsFile(fs, p) THEN {Outcome(RemoveTree(fs, p), TRUE, <<p>>)} ELSE {})

RECURSIVE rmdir_recursive(_, _)
RECURSIVE RmdirChildren(_, _, _, _)
\* A loop that skips a child it could not remove and goes on with the next.
RmdirChildrenContinuing(fs, p, kids, log) ==
  IF kids = <<>>
  THEN {Outcome(fs, FALSE, log), Outcome(RemoveTree(fs, p), TRUE, Append(log, p))}
  ELSE LET k == Head(kids) IN
       IF fs[k].is_dir
       THEN UNION {RmdirChildren(r.fs, p, Tail(kids), log \o r.log) :
                   r \in rmdir_recursive(fs, k)}
       ELSE RmdirChildren(fs, p, Tail(kids), log)
              \cup RmdirChildren(RemoveTree(fs, k), p, Tail(kids), Append(log, k))

\* The for loop of rmdir_recursive over the children still to visit, then
\* the rmdir of the directory itself.
RmdirChildren(fs, p, kids, log) ==
  IF kids = <<>>
  THEN {Outcome(fs, FALSE, log), Outcome(RemoveTree(fs, p), TRUE, Append(log, p))}
  ELSE LET k == Head(kids) IN
       IF fs[k].is_dir
       THEN UNION {IF r.ok
                   THEN RmdirChildren(r.fs, p, Tail(kids), log \o r.log)
                   ELSE {Outcome(r.fs, FALSE, log \o r.log)} :
                   r \in rmdir_recursive(fs, k)}
       ELSE {Outcome(fs, FALSE, log)}
              \cup RmdirChildren(RemoveTree(fs, k), p, Tail(kids), Append(log, k))

\* SftpConnection::rmdir_recursive: readdir, then every child in the order
\* readdir returned them, then the directory.
rmdir_recursive(fs, p) ==
  {Outcome(fs, FALSE, <<>>)}
    \cup (IF IsDir(fs, p)
          THEN UNION {RmdirChildren(fs, p, o, <<>>) : o \in Orders(ChildPaths(fs, p))}
          ELSE {})

\* std::fs::remove_dir_all; a failing call is taken to fail before it
\* removed anything.
remove_dir_all(fs, p) ==
  {Outcome(fs, FALSE, <<>>)}
    \cup (IF IsDir(fs, p) THEN {Outcome(RemoveTree(fs, p), TRUE, <<p>>)} ELSE {})

\* One iteration of the loops of confirm_delete: the call made for entry e
\* of the directory dir, on the left or the right side.
DeleteOne(side, fs, dir, e) ==
  LET path == Join(dir, e.name) IN
  IF side = "Left"
  THEN IF e.is_dir THEN remove_dir_all(fs, path) ELSE Unlink(fs, path)
  ELSE IF e.is_dir THEN rmdir_recursive(fs, path) ELSE Unlink(fs, path)

\* The locals of confirm_delete while its loop runs: the tree so far, the
\* calls made, the counter deleted and last_error.
DeleteRun(fs, trace, deleted, last_error) ==
  [fs |-> fs, trace |-> trace, deleted |-> deleted, last_error |-> last_error]

\* A loop body that refreshes the listing after each deletion.
DeleteStepRefreshing(acc, e, sid, r) ==
  DeleteRun(r.fs,
            acc.trace
              \o <<Ev(IF e.is_dir THEN "delete_dir" ELSE "delete_file", e.name, sid, r.ok),
                   Ev("list_dir", "", sid, TRUE)>>,
            IF r.ok THEN acc.deleted + 1 ELSE acc.deleted,
            IF r.ok THEN acc.last_error ELSE Some(e.name))

\* The match on the result of one deletion (app.rs 1279-1282, 1297-1302).
DeleteStep(acc, e, sid, r) ==
  DeleteRun(r.fs,
            Append(acc.trace,
                   Ev(IF e.is_dir THEN "delete_dir" ELSE "delete_file", e.name, sid, r.ok)),
            IF r.ok THEN acc.deleted + 1 ELSE acc.deleted,
            IF r.ok THEN acc.last_error ELSE Some(e.name))

RECURSIVE DeleteLoop(_, _, _, _, _)
\* A loop that stops at the first deletion that fails.
DeleteLoopAborting(side, sid, dir, entries, acc) ==
  IF entries = <<>> \/ acc.last_error # None THEN {acc}
  ELSE UNION {DeleteLoop(side, sid, dir, Tail(entries), DeleteStep(acc, Head(entries), sid, r)) :
              r \in DeleteOne(side, acc.fs, dir, Head(entries))}

\* The for loop over dlg.entries: every run it can take from acc on.
DeleteLoop(side, sid, dir, entries, acc) ==
  IF entries = <<>> THEN {acc}
  ELSE UNION {DeleteLoop(side, sid, dir, Tail(entries), DeleteStep(acc, Head(entries), sid, r)) :
              r \in DeleteOne(side, acc.fs, dir, Head(entries))}

\* The status line after the loop (app.rs 1320-1326).
DeleteSummary(entries, run) ==
  IF run.last_error # None
  THEN StatusLine("geloescht - Fehler", run.deleted, Len(entries), Unwrap(run.last_error))
  ELSE IF Len(entries) = 1
  THEN StatusLine("geloescht", 0, 0, entries[1].name)
  ELSE StatusLine("Eintraege geloescht", run.deleted, 0, "")

\* DeleteDialog::new_multi
DeleteDialog(side, entries) == [side |-> side, entries |-> entries]

\* App::open_delete_dialog
open_delete_dialog ==
  LET panel == IF active = "Left" THEN left ELSE right
      to_delete == BatchEntries(panel)
  IN  /\ IF (active = "Right" /\ ~is_connected) \/ to_delete = <<>>
         THEN delete_dialog' = delete_dialog
         ELSE delete_dialog' = Some(DeleteDialog(active, to_delete))
      /\ last_call' = Call("open_delete_dialog", <<>>)
      /\ UNCHANGED <<running, rename_dialog, mkdir_dialog, shell_dialog, profile_dialog, env, password_dialog, status_message, sftp, left, right, active,
                     upload_progress, download_progress, pending_edit,
                     progress, worker, lfs, rfs>>

\* handle_main_key, F8
KeyF8 == MainContext /\ open_delete_dialog

\* App::confirm_delete
confirm_delete ==
  IF delete_dialog = None
  THEN /\ last_call' = Call("confirm_delete", <<>>)
       /\ UNCHANGED <<running, rename_dialog, mkdir_dialog, shell_dialog, profile_dialog, env, password_dialog, status_message, sftp, left, right, active,
                      upload_progress, download_progress, delete_dialog,
                      pending_edit, progress, worker, lfs, rfs>>
  ELSE
  LET dlg == Unwrap(delete_dialog)
      start(fs) == DeleteRun(fs, <<>>, 0, None)
  IN  /\ delete_dialog' = None
      /\ IF dlg.side = "Left"
         THEN \E run \in DeleteLoop("Left", 0, left.path, dlg.entries, start(lfs)) :
              \E rd_ok \in ReadDirOutcomes(run.fs, left.path) :
                /\ lfs' = run.fs
                /\ left' = clear_marks(load_local(left, run.fs, rd_ok))
                /\ status_message' = DeleteSummary(dlg.entries, run)
                /\ last_call' = Call("confirm_delete",
                                     Append(run.trace, Ev("load_local", "", 0, rd_ok)))
                /\ UNCHANGED <<right, rfs>>
         ELSE IF sftp = None
         THEN /\ last_call' = Call("confirm_delete", <<>>)
              /\ UNCHANGED <<status_message, left, right, lfs, rfs>>
         ELSE LET conn == Unwrap(sftp) IN
              \E run \in DeleteLoop("Right", conn.sid, conn.remote_path, dlg.entries, start(rfs)) :
              \E ls_ok \in ListOutcomes(run.fs, conn.remote_path) :
                /\ rfs' = run.fs
                /\ last_call' = Call("confirm_delete",
                                     Append(run.trace, Ev("list_dir", "", conn.sid, ls_ok)))
                /\ IF ls_ok
                   THEN /\ right' = clear_marks(load_remote(right, conn.remote_path,
                                                            list_dir(conn, run.fs)))
                        /\ status_message' = DeleteSummary(dlg.entries, run)
                   ELSE /\ right' = right
                        /\ status_message' = Msg("Listing fehlgeschlagen")
                /\ UNCHANGED <<left, lfs>>
      /\ UNCHANGED <<running, rename_dialog, mkdir_dialog, shell_dialog, profile_dialog, env, password_dialog, sftp, active, upload_progress, download_progress,
                     pending_edit, progress, worker>>

\* handle_events with the delete dialog open: Enter, y or Y.
DeleteKeyEnter ==
  /\ running /\ pending_edit = None /\ password_dialog = None
  /\ delete_dialog # None
  /\ confirm_delete

\* handle_events with the delete dialog open: Esc, n or N.
DeleteKeyEsc ==
  /\ running /\ pending_edit = None /\ password_dialog = None
  /\ delete_dialog # None
  /\ delete_dialog' = None
  /\ last_call' = Call("Esc", <<>>)
  /\ UNCHANGED <<running, rename_dialog, mkdir_dialog, shell_dialog, profile_dialog, env, password_dialog, status_message, sftp, left, right, active,
                 upload_progress, download_progress, pending_edit, progress,
                 worker, lfs, rfs>>

\* App::toggle_panel, on Tab.
KeyTab ==
  /\ MainContext
  /\ active' = IF active = "Left" THEN "Right" ELSE "Left"
  /\ last_call' = Call("Tab", <<>>)
  /\ UNCHANGED <<running, rename_dialog, mkdir_dialog, shell_dialog, profile_dialog, env, password_dialog, status_message, sftp, left, right, upload_progress,
                 download_progress, delete_dialog, pending_edit, progress,
                 worker, lfs, rfs>>

\* handle_main_key, Space: toggle the mark of the highlighted entry of the
\* active panel and move down.
KeySpace ==
  /\ MainContext
  /\ IF active = "Left"
     THEN left' = move_down(toggle_mark(left)) /\ right' = right
     ELSE right' = move_down(toggle_mark(right)) /\ left' = left
  /\ last_call' = Call("Space", <<>>)
  /\ UNCHANGED <<running, rename_dialog, mkdir_dialog, shell_dialog, profile_dialog, env, password_dialog, status_message, sftp, active, upload_progress,
                 download_progress, delete_dialog, pending_edit, progress,
                 worker, lfs, rfs>>

\* handle_main_key, Up and Down on the active panel.
KeyUpDown ==
  /\ MainContext
  /\ \E down \in BOOLEAN :
       LET move(p) == IF down THEN move_down(p) ELSE move_up(p) IN
       IF active = "Left"
       THEN left' = move(left) /\ right' = right
       ELSE right' = move(right) /\ left' = left
  /\ last_call' = Call("UpDown", <<>>)
  /\ UNCHANGED <<running, rename_dialog, mkdir_dialog, shell_dialog, profile_dialog, env, password_dialog, status_message, sftp, active, upload_progress,
                 download_progress, delete_dialog, pending_edit, progress,
                 worker, lfs, rfs>>

\* ------------------------------------------------------------ initial state
\* The local tree: below the home directory a directory A holding the file
\* x, a file a.txt of two chunks and an empty file b.txt.
LocalTree ==
  LET A == Join(LocalHome, "A") IN
  [q \in {Root, LocalHome, A, Join(A, "x"), Join(LocalHome, "a.txt"),
          Join(LocalHome, "b.txt")} |->
     IF q \in {Root, LocalHome, A} THEN DirNode
     ELSE IF q = Join(A, "x") THEN FileNode(<<<<"l", 10>>>>)
     ELSE IF q = Join(LocalHome, "a.txt") THEN FileNode(<<<<"l", ChunkSize>>, <<"l", 7>>>>)
     ELSE FileNode(<<>>)]

\* The remote tree: below the home directory a directory A holding the file
\* x, and an empty file b.txt.
RemoteTree ==
  LET A == Join(RemoteHome, "A") IN
  [q \in {Root, RemoteHome, A, Join(A, "x"), Join(RemoteHome, "b.txt")} |->
     IF q \in {Root, RemoteHome, A} THEN DirNode
     ELSE IF q = Join(A, "x") THEN FileNode(<<<<"r", 10>>>>)
     ELSE FileNode(<<>>)]

\* App::new: the left panel lists the working directory, nothing is connected.
AppNew ==
  /\ env = HomeEnv
  /\ running = TRUE
  /\ status_message = NoMessage
  /\ sftp = None
  /\ active = "Left"
  /\ upload_progress = 0
  /\ download_progress = 0
  /\ delete_dialog = None
  /\ rename_dialog = None
  /\ mkdir_dialog = None
  /\ password_dialog = None
  /\ shell_dialog = None
  /\ profile_dialog = None
  /\ pending_edit = None
  /\ progress = [h \in Handles |-> NoProgress]
  /\ worker = [h \in Handles |-> NoWorker]
  /\ last_call = Call("new", <<>>)

\* A listing as the Down and * keys leave it: the cursor on the first entry
\* after "..", and either nothing or everything marked.
Marked(p) ==
  {[p EXCEPT !.selected = 1, !.marked = m] :
     m \in {{}, {i \in 0..(Len(p.entries) - 1) : p.entries[i + 1].name # ".."}}}

\* The transfer engine: an App connected on session 1 whose panels list the
\* two home directories.
InitTransfer ==
  /\ env = HomeEnv
  /\ running = TRUE
  /\ status_message = Msg("Verbunden")
  /\ sftp = Some(Conn(1, RemoteHome))
  /\ active = "Left"
  /\ upload_progress = 0
  /\ download_progress = 0
  /\ delete_dialog = None
  /\ rename_dialog = None
  /\ mkdir_dialog = None
  /\ password_dialog = None
  /\ shell_dialog = None
  /\ profile_dialog = None
  /\ pending_edit = None
  /\ progress = [h \in Handles |-> NoProgress]
  /\ worker = [h \in Handles |-> NoWorker]
  /\ last_call = Call("do_connect", <<Ev("connect", "", 1, TRUE)>>)
  /\ lfs = LocalTree
  /\ rfs = RemoteTree
  /\ left \in Marked(load_local(NewPanel(Cwd), lfs, TRUE))
  /\ right \in Marked(load_remote(NewPanel(Cwd), RemoteHome,
                                  list_dir(Conn(1, RemoteHome), rfs)))

\* The program as the run loop drives it: keys, the two polls of every frame
\* and the steps of the transfer threads.
NextTransfer ==
  \/ DoConnect
  \/ KeyF3
  \/ KeyF5
  \/ KeyF6
  \/ poll_upload
  \/ poll_download
  \/ \E h \in Handles : WorkerStep(h)

SpecTransfer == InitTransfer /\ [][NextTransfer]_vars

\* The delete flow, driven by keys: a connected App with nothing in flight.
InitDelete ==
  /\ env = HomeEnv
  /\ running = TRUE
  /\ status_message = Msg("Verbunden")
  /\ sftp = Some(Conn(1, RemoteHome))
  /\ active = "Left"
  /\ upload_progress = 0
  /\ download_progress = 0
  /\ delete_dialog = None
  /\ rename_dialog = None
  /\ mkdir_dialog = None
  /\ password_dialog = None
  /\ shell_dialog = None
  /\ profile_dialog = None
  /\ pending_edit = None
  /\ progress = [h \in Handles |-> NoProgress]
  /\ worker = [h \in Handles |-> NoWorker]
  /\ last_call = Call("do_connect", <<Ev("connect", "", 1, TRUE)>>)
  /\ lfs = LocalTree
  /\ rfs = RemoteTree
  /\ left = load_local(NewPanel(Cwd), lfs, TRUE)
  /\ right = load_remote(NewPanel(Cwd), RemoteHome, list_dir(Conn(1, RemoteHome), rfs))

NextDelete ==
  \/ KeyTab
  \/ KeySpace
  \/ KeyUpDown
  \/ KeyF8
  \/ DeleteKeyEnter
  \/ DeleteKeyEsc

SpecDelete == InitDelete /\ [][NextDelete]_vars

\* ----------------------------------------------------------------- edit (F4)
\* EditRequest::Local { path } and EditRequest::Remote { temp_path,
\* remote_path, mtime_before }.  launched and exit_ok record where the run
\* loop stands between prepare_edit and finish_edit: whether launch_editor
\* has returned, and the exit status it discarded.
EditRequest(kind, path, remote_path, mtime_before) ==
  [kind |-> kind, path |-> path, remote_path |-> remote_path,
   mtime_before |-> mtime_before, launched |-> FALSE, exit_ok |-> TRUE]

\* The first k chunks of a file's data.
Prefix(data, k) == SubSeq(data, 1, k)

\* download_file_to_dir: the scratch file it leaves in dir, if any, and
\* whether it returned Ok.  The scratch file is created once the remote file
\* is open; a failing read or write leaves the chunks copied so far.
download_file_to_dir(remote_fs, remote, local_fs, dir) ==
  LET local_path == Join(dir, FileName(remote))
      data == remote_fs[remote].data
      written(k) == PutNode(local_fs, local_path, FileNodeAt(Prefix(data, k), 1))
  IN  {Outcome(local_fs, FALSE, <<>>)}
        \cup (IF IsFile(remote_fs, remote) /\ IsDir(local_fs, dir)
              THEN {Outcome(written(k), k = Len(data), <<local_path>>) : k \in 0..Len(data)}
                     \cup {Outcome(written(Len(data)), FALSE, <<local_path>>)}
              ELSE {})

\* std::fs::create_dir_all(temp_dir) on success.
create_dir_all(fs, dir) ==
  [q \in (DOMAIN fs) \cup {Prefix(dir, k) : k \in 0..Len(dir)} |->
     IF q \in DOMAIN fs THEN fs[q] ELSE DirNode]

\* The entry F4 is pressed on, if it can be edited.
Editable(p) ==
  LET e == Get(p.entries, p.selected) IN
  IF e # None /\ ~Unwrap(e).is_dir /\ Unwrap(e).name # ".." THEN e ELSE None

\* App::prepare_edit
prepare_edit ==
  /\ IF active = "Left"
     THEN /\ IF Editable(left) = None
             THEN /\ status_message' = Msg("Kein bearbeitbarer Eintrag")
                  /\ pending_edit' = pending_edit
             ELSE /\ status_message' = status_message
                  /\ pending_edit' = Some(EditRequest("Local",
                        Join(left.path, Unwrap(Editable(left)).name), <<>>, 0))
          /\ lfs' = lfs
          /\ last_call' = Call("prepare_edit", <<>>)
     ELSE IF ~is_connected
     THEN /\ last_call' = Call("prepare_edit", <<>>)
          /\ UNCHANGED <<status_message, pending_edit, lfs>>
     ELSE IF Editable(right) = None
     THEN /\ status_message' = Msg("Kein bearbeitbarer Eintrag")
          /\ last_call' = Call("prepare_edit", <<>>)
          /\ UNCHANGED <<pending_edit, lfs>>
     ELSE LET conn == Unwrap(sftp)
              remote_path == Join(conn.remote_path, Unwrap(Editable(right)).name)
          IN  \E dir_ok \in BOOLEAN :
                IF ~dir_ok
                THEN /\ status_message' = Msg("Temp-Verzeichnis")
                     /\ last_call' = Call("prepare_edit", <<>>)
                     /\ UNCHANGED <<pending_edit, lfs>>
                ELSE \E r \in download_file_to_dir(rfs, remote_path,
                                                   create_dir_all(lfs, TempDir), TempDir) :
                       /\ lfs' = r.fs
                       /\ last_call' = Call("prepare_edit",
                            <<Ev("download_file_to_dir", FileName(remote_path), conn.sid, r.ok)>>)
                       /\ IF r.ok
                          THEN /\ pending_edit' = Some(EditRequest("Remote", r.log[1],
                                                     remote_path, r.fs[r.log[1]].mtime))
                               /\ status_message' = status_message
                          ELSE /\ pending_edit' = pending_edit
                               /\ status_message' = Msg("Download fuer Bearbeitung fehlgeschlagen")
  /\ UNCHANGED <<running, rename_dialog, mkdir_dialog, shell_dialog, profile_dialog, env, password_dialog, sftp, left, right, active, upload_progress,
                 download_progress, delete_dialog, progress, worker, rfs>>

\* handle_main_key, F4
KeyF4 == MainContext /\ prepare_edit

\* The content the user can save: a text of two chunks.
EditedData == {<<<<"e", ChunkSize>>, <<"e", 9>>>>}

\* launch_editor: the TUI is suspended while the editor runs; its exit status
\* is discarded.  The user may leave the file alone (or no editor is found),
\* save new or the same content (a newer modification time), set an older
\* time, or remove the file.
launch_editor ==
  /\ running
  /\ pending_edit # None
  /\ ~Unwrap(pending_edit).launched
  /\ LET req == Unwrap(pending_edit) IN
     /\ \E exit_ok \in BOOLEAN :
          pending_edit' = Some([req EXCEPT !.launched = TRUE, !.exit_ok = exit_ok])
     /\ \/ lfs' = lfs
        \/ \E d \in EditedData : lfs' = PutNode(lfs, req.path, FileNodeAt(d, 2))
        \/ \E t \in {0, 2} :
             /\ Exists(lfs, req.path)
             /\ lfs' = PutNode(lfs, req.path, FileNodeAt(lfs[req.path].data, t))
        \/ lfs' = RemoveTree(lfs, req.path)
  /\ UNCHANGED <<running, rename_dialog, mkdir_dialog, shell_dialog, profile_dialog, env, password_dialog, status_message, sftp, left, right, active,
                 upload_progress, download_progress, delete_dialog, progress,
                 worker, rfs, last_call>>

\* The result of an upload: the remote tree it leaves and the error, "ok"
\* for none.
Uploaded(fs, err) == [fs |-> fs, err |-> err]

\* upload_file_to_path: open the local file, open the remote one with
\* WRITE | CREATE | TRUNCATE, then write chunk after chunk.  The scratch file
\* is the process's own: opening it fails only when it is gone.
upload_file_to_path(local_fs, local, remote_fs, remote) ==
  IF ~IsFile(local_fs, local) THEN {Uploaded(remote_fs, "tcp")}
  ELSE LET data == local_fs[local].data
           written(k) == PutNode(remote_fs, remote, FileNode(Prefix(data, k)))
       IN  {Uploaded(remote_fs, "path")}
             \cup (IF IsDir(remote_fs, Parent(remote)) /\ ~IsDir(remote_fs, remote)
                   THEN {Uploaded(written(k), IF k = Len(data) THEN "ok" ELSE "path") :
                           k \in 0..Len(data)}
                   ELSE {})

\* upload_file_fresh: a TCP stream, session and authentication of its own,
\* then upload_file_to_path on that session.
upload_file_fresh(local_fs, local, remote_fs, remote) ==
  {Uploaded(remote_fs, "tcp"), Uploaded(remote_fs, "auth")}
    \cup upload_file_to_path(local_fs, local, remote_fs, remote)

\* A comparison that takes an equal time for a change.
ChangedOrEqual(fs, req) == Exists(fs, req.path) /\ fs[req.path].mtime >= req.mtime_before

\* A removal that is left out.
remove_file_skipped(fs, p) == fs

\* std::fs::remove_file on the scratch file, its result dropped (let _ =).
\* The scratch file is the process's own: removing it fails only when it is
\* gone already.
remove_file(fs, p) == RemoveTree(fs, p)

\* finish_edit: std::fs::metadata(temp_path).modified() > mtime_before, false
\* when the metadata cannot be read.
Changed(fs, req) == Exists(fs, req.path) /\ fs[req.path].mtime > req.mtime_before

\* The session upload_file_fresh runs on.
EditSid == OwnSid

\* App::finish_edit, called by the run loop with the request it took from
\* pending_edit once launch_editor has returned.  An Err from the local
\* reload ends the run loop.
finish_edit ==
  /\ running
  /\ pending_edit # None
  /\ Unwrap(pending_edit).launched
  /\ pending_edit' = None
  /\ LET req == Unwrap(pending_edit) IN
     IF req.kind = "Local"
     THEN \E rd_ok \in ReadDirOutcomes(lfs, left.path) :
            /\ left' = load_local(left, lfs, rd_ok)
            /\ running' = rd_ok
            /\ status_message' = IF rd_ok THEN Msg("Editor geschlossen") ELSE status_message
            /\ last_call' = Call("finish_edit", <<Ev("load_local", "", 0, rd_ok)>>)
            /\ UNCHANGED <<right, lfs, rfs>>
     ELSE IF ~Changed(lfs, req)
     THEN /\ status_message' = Msg("Keine Aenderungen, kein Upload")
          /\ lfs' = remove_file(lfs, req.path)
          /\ last_call' = Call("finish_edit",
               <<Ev("remove_file", FileName(req.path), 0, Exists(lfs, req.path))>>)
          /\ UNCHANGED <<running, left, right, rfs>>
     ELSE IF sftp = None
     THEN /\ lfs' = remove_file(lfs, req.path)
          /\ last_call' = Call("finish_edit",
               <<Ev("remove_file", FileName(req.path), 0, Exists(lfs, req.path))>>)
          /\ UNCHANGED <<running, status_message, left, right, rfs>>
     ELSE /\ HasFreeSid
          /\ \E up \in upload_file_fresh(lfs, req.path, rfs, req.remote_path) :
             \E ls_ok \in ListOutcomes(up.fs, Unwrap(sftp).remote_path) :
               /\ rfs' = up.fs
               /\ status_message' =
                    IF up.err = "ok"
                    THEN StatusLine("hochgeladen", 0, 0, FileName(req.remote_path))
                    ELSE StatusLine("Upload fehlgeschlagen", 0, 0, up.err)
               /\ right' = IF ls_ok
                           THEN load_remote(right, Unwrap(sftp).remote_path,
                                            list_dir(Unwrap(sftp), up.fs))
                           ELSE right
               /\ lfs' = remove_file(lfs, req.path)
               /\ last_call' = Call("finish_edit",
                    <<Ev("upload_file_fresh", FileName(req.remote_path), EditSid, up.err = "ok"),
                      Ev("list_dir", "", Unwrap(sftp).sid, ls_ok),
                      Ev("remove_file", FileName(req.path), 0, Exists(lfs, req.path))>>)
               /\ UNCHANGED <<running, left>>
  /\ UNCHANGED <<sftp, active, upload_progress, download_progress,
                 delete_dialog, rename_dialog, mkdir_dialog, shell_dialog, profile_dialog, env, password_dialog, progress, worker>>

\* A small pair of trees: a local directory A holding the file x, and one
\* remote file of one chunk.
SmallLocalTree ==
  LET A == Join(LocalHome, "A") IN
  [q \in {Root, LocalHome, A, Join(A, "x")} |->
     IF q = Join(A, "x") THEN FileNode(<<<<"l", 10>>>>) ELSE DirNode]

SmallRemoteTree ==
  [q \in {Root, RemoteHome, Join(RemoteHome, "b.txt")} |->
     IF q = Join(RemoteHome, "b.txt") THEN FileNode(<<<<"r", 10>>>>) ELSE DirNode]

\* A connected App on the small trees, the right panel active and the cursor
\* of each panel on its first entry after "..".
InitSession ==
  /\ env = HomeEnv
  /\ running = TRUE
  /\ status_message = Msg("Verbunden")
  /\ sftp = Some(Conn(1, RemoteHome))
  /\ active = "Right"
  /\ upload_progress = 0
  /\ download_progress = 0
  /\ delete_dialog = None
  /\ rename_dialog = None
  /\ mkdir_dialog = None
  /\ password_dialog = None
  /\ shell_dialog = None
  /\ profile_dialog = None
  /\ pending_edit = None
  /\ progress = [h \in Handles |-> NoProgress]
  /\ worker = [h \in Handles |-> NoWorker]
  /\ last_call = Call("do_connect", <<Ev("connect", "", 1, TRUE)>>)
  /\ lfs = SmallLocalTree
  /\ rfs = SmallRemoteTree
  /\ left = move_down(load_local(NewPanel(Cwd), lfs, TRUE))
  /\ right = move_down(load_remote(NewPanel(Cwd), RemoteHome,
                                   list_dir(Conn(1, RemoteHome), rfs)))

\* The program on the small trees: connect and disconnect, transfers and the
\* edit round trip, as the run loop and the key handler drive them.
NextSession ==
  \/ DoConnect
  \/ KeyF3
  \/ KeyF4
  \/ KeyF5
  \/ KeyF6
  \/ poll_upload
  \/ poll_download
  \/ \E h \in Handles : WorkerStep(h)
  \/ launch_editor
  \/ finish_edit

SpecSession == InitSession /\ [][NextSession]_vars

\* The App as a library: its methods called in any order a caller of the
\* public API can produce.
CallStartUpload == running /\ pending_edit = None /\ start_upload
CallStartDownload == running /\ pending_edit = None /\ start_download
CallPrepareEdit == running /\ pending_edit = None /\ prepare_edit
CallDisconnect == running /\ is_connected /\ disconnect

\* The transfer methods called directly.
NextApi ==
  \/ CallStartUpload
  \/ CallStartDownload
  \/ poll_upload
  \/ poll_download
  \/ \E h \in Handles : WorkerStep(h)

SpecApi == InitSession /\ [][NextApi]_vars

\* The edit methods called directly, with connect and disconnect in between.
NextEdit ==
  \/ DoConnect
  \/ CallDisconnect
  \/ CallPrepareEdit
  \/ launch_editor
  \/ finish_edit

SpecEdit == InitSession /\ [][NextEdit]_vars

\* ------------------------------------------------------------------- claims
\* The files of batch h whose transfer was started but not completed and is
\* no longer running: the files that failed.
FailedFiles(h) ==
  IF Len(worker[h].tried) > Len(worker[h].done) /\ worker[h].pc \notin {"open", "chunks"}
  THEN SubSeq(worker[h].tried, Len(worker[h].done) + 1, Len(worker[h].tried))
  ELSE <<>>

\* C1: abort on first failure.  In every state of every upload or download
\* batch: files_done is the number of files fully transferred; the files
\* started are the files completed plus at most the one in hand; and once a
\* file has failed the thread is past its loop (about to write the final
\* state, or exited), so no later file or entry is attempted, and the state
\* it leaves is Failed.
C1_AbortOnFirstFailure ==
  \A h \in Handles :
    worker[h].kind # "none" =>
      /\ progress[h].files_done = Len(worker[h].done)
      /\ Len(worker[h].tried) <= Len(worker[h].done) + 1
      /\ SubSeq(worker[h].tried, 1, Len(worker[h].done)) = worker[h].done
      /\ FailedFiles(h) # <<>> =>
           /\ worker[h].pc \in {"final", "exit"}
           /\ worker[h].result \notin {"none", "ok"}
           /\ worker[h].pc = "exit" => IsFailed(progress[h].state)

\* C1, its case: a batch of three entries whose second file failed has
\* ended Failed with one file transferred and the third entry still unvisited.
C1_Witness ==
  \E h \in Handles :
    /\ worker[h].pc = "exit"
    /\ IsFailed(progress[h].state)
    /\ progress[h].files_done = 1
    /\ Len(worker[h].done) = 1
    /\ Len(worker[h].tried) = 2
    /\ Len(worker[h].todo) = 1

\* The state of a record is one of the two terminal values.
IsFinal(st) == st = Done \/ IsFailed(st)

\* C2, in every state: a thread that has exited left a terminal state, and a
\* thread that has not exited has left the state Running.
C2_StateFollowsThread ==
  \A h \in Handles :
    /\ worker[h].pc = "exit" => IsFinal(progress[h].state)
    /\ (worker[h].kind # "none" /\ worker[h].pc # "exit") => progress[h].state = Running

\* C2, in every step: the state of a record changes only from Running to Done
\* or Failed, written by the thread as it exits (besides the creation and the
\* release of the record), and a record with a terminal state is not written
\* again: it stays as it is until the foreground releases it.
C2_StepWritesOnce ==
  \A h \in Handles :
    /\ progress'[h].state # progress[h].state =>
         \/ /\ progress[h].state = Running
            /\ IsFinal(progress'[h].state)
            /\ worker[h].pc = "final" /\ worker'[h].pc = "exit"
         \/ progress[h] = NoProgress /\ progress'[h].state = Running
         \/ IsFinal(progress[h].state) /\ progress'[h] = NoProgress
    /\ IsFinal(progress[h].state) =>
         progress'[h] = progress[h] \/ progress'[h] = NoProgress

\* C2: the terminal values of the progress state are write-once.
C2_TerminalWriteOnce == []C2_StateFollowsThread /\ [][C2_StepWritesOnce]_vars

\* C2, its case: a whole batch of three files has ended Done and its record
\* is still held by the foreground.
C2_Witness ==
  \E h \in Handles :
    /\ upload_progress = h
    /\ worker[h].pc = "exit"
    /\ progress[h].state = Done
    /\ progress[h].files_done = 3

\* The calls named call among the calls of the last handler.
CallsOf(call) == SelectSeq(last_call.trace, LAMBDA ev : ev.call = call)

\* C3, in every state: the session of a running batch is never the live
\* session, and the session the edit re-upload ran on is not the live one.
C3_OwnSession ==
  /\ \A h \in Handles :
       (worker[h].sid # 0 /\ sftp # None) => worker[h].sid # Unwrap(sftp).sid
  /\ (last_call.op = "finish_edit" /\ sftp # None) =>
       \A i \in 1..Len(CallsOf("upload_file_fresh")) :
         CallsOf("upload_file_fresh")[i].sid # Unwrap(sftp).sid

\* C3, in every step: a step that closes, opens or replaces the live session
\* changes no batch: every thread and every progress record stay as they are.
C3_LiveSessionApart ==
  sftp' # sftp => (worker' = worker /\ progress' = progress)

Threads(kind) == {h \in Handles : worker[h].kind = kind}

\* C4, in every state: at most one upload thread and at most one download
\* thread exist, the ones behind the two handles.
C4_OneThreadEach ==
  /\ Threads("up") = (IF upload_progress = 0 THEN {} ELSE {upload_progress})
  /\ Threads("down") = (IF download_progress = 0 THEN {} ELSE {download_progress})

\* C4, in every step: while an upload handle is present no step starts an
\* upload thread or replaces the handle, and a call of start_upload changes
\* nothing of the handles, the threads, the records and the panels; the same
\* for start_download while a download handle is present.
C4_StartRejected ==
  /\ is_uploading =>
       /\ upload_progress' \in {upload_progress, 0}
       /\ \A h \in Handles : worker'[h].kind = "up" => worker[h].kind = "up"
       /\ (last_call'.op = "start_upload" /\ last_call' # last_call) =>
            UNCHANGED <<upload_progress, download_progress, worker, progress,
                        left, right, status_message>>
  /\ is_downloading =>
       /\ download_progress' \in {download_progress, 0}
       /\ \A h \in Handles : worker'[h].kind = "down" => worker[h].kind = "down"
       /\ (last_call'.op = "start_download" /\ last_call' # last_call) =>
            UNCHANGED <<upload_progress, download_progress, worker, progress,
                        left, right, status_message>>

\* C4: at most one upload and one download worker in flight.
C4_OneWorkerPerDirection == []C4_OneThreadEach /\ [][C4_StartRejected]_vars

\* C4, its case: start_upload was called on a connected App with an entry
\* under the cursor while an upload was in flight, and did nothing.
C4_Witness ==
  /\ is_uploading
  /\ is_connected
  /\ BatchEntries(left) # <<>>
  /\ worker[upload_progress].pc \notin {"none", "exit"}
  /\ last_call = Call("start_upload", <<>>)

\* The deletions among the calls of a trace.
Deletions(trace) ==
  SelectSeq(trace, LAMBDA ev : ev.call \in {"delete_file", "delete_dir"})

\* The number of calls of a trace that succeeded.
Succeeded(trace) == Len(SelectSeq(trace, LAMBDA ev : ev.ok))

\* A step in which confirm_delete runs the batch of the open dialog.
ConfirmStep ==
  /\ delete_dialog # None
  /\ delete_dialog' = None
  /\ last_call'.op = "confirm_delete"

\* C5: batch delete is best-effort.  In every step that confirms a delete
\* dialog, the deletions made are those of the dialog's entries, each once
\* and in list order, whichever of them fail; every deletion that succeeded
\* removed its entry; and the count a summary shows is the number of
\* deletions that succeeded, the total the number of entries.
C5_BestEffort_Step ==
  ConfirmStep =>
    LET dlg  == Unwrap(delete_dialog)
        dels == Deletions(last_call'.trace)
        dir  == IF dlg.side = "Left" THEN left.path ELSE Unwrap(sftp).remote_path
        fs2  == IF dlg.side = "Left" THEN lfs' ELSE rfs'
    IN  /\ Len(dels) = Len(dlg.entries)
        /\ \A i \in 1..Len(dels) :
             /\ dels[i].name = dlg.entries[i].name
             /\ dels[i].call = (IF dlg.entries[i].is_dir THEN "delete_dir" ELSE "delete_file")
             /\ dels[i].ok => ~Exists(fs2, Join(dir, dels[i].name))
        /\ status_message'.tag = "geloescht - Fehler" =>
             /\ status_message'.n = Succeeded(dels)
             /\ status_message'.total = Len(dlg.entries)
        /\ status_message'.tag = "Eintraege geloescht" =>
             status_message'.n = Succeeded(dels)

C5_BestEffort == [][C5_BestEffort_Step]_vars

\* C5, its case: a batch of three entries whose second deletion failed: all
\* three were attempted and the summary says 2 of 3.
C5_Witness ==
  /\ last_call.op = "confirm_delete"
  /\ Len(Deletions(last_call.trace)) = 3
  /\ Deletions(last_call.trace)[1].ok
  /\ ~Deletions(last_call.trace)[2].ok
  /\ Deletions(last_call.trace)[3].ok
  /\ status_message = StatusLine("geloescht - Fehler", 2, 3, Deletions(last_call.trace)[2].name)

\* The deletions of the last handler that failed.
FailedDeletions == SelectSeq(Deletions(last_call.trace), LAMBDA ev : ~ev.ok)

\* C6: after a batch delete in which a deletion failed, the status message
\* is the summary succeeded/total with the error of the last failing entry,
\* on the local and on the remote side.
C6_SummaryAfterFailure ==
  (last_call.op = "confirm_delete" /\ FailedDeletions # <<>>) =>
    status_message =
      StatusLine("geloescht - Fehler",
                 Succeeded(Deletions(last_call.trace)),
                 Len(Deletions(last_call.trace)),
                 FailedDeletions[Len(FailedDeletions)].name)

\* C7: a remote batch delete of n entries makes n + 1 calls on the live
\* session: the n deletions, then one list_dir, which is the only one; when
\* it succeeds the remote panel shows the tree the deletions left.
C7_OneRefresh_Step ==
  (ConfirmStep /\ Unwrap(delete_dialog).side = "Right") =>
    LET n  == Len(Unwrap(delete_dialog).entries)
        tr == last_call'.trace
    IN  /\ Len(tr) = n + 1
        /\ \A i \in 1..n : tr[i].call \in {"delete_file", "delete_dir"}
        /\ tr[n + 1].call = "list_dir"
        /\ tr[n + 1].ok => right'.entries = list_dir(Unwrap(sftp), rfs')

C7_OneRefresh == [][C7_OneRefresh_Step]_vars

\* C7, its case: a remote batch of two entries, one deletion failed, and the
\* one refresh after them succeeded.
C7_Witness ==
  /\ last_call.op = "confirm_delete"
  /\ Len(last_call.trace) = 3
  /\ last_call.trace[1].sid # 0
  /\ ~last_call.trace[1].ok
  /\ last_call.trace[2].ok
  /\ last_call.trace[3] = Ev("list_dir", "", last_call.trace[1].sid, TRUE)

\* A step in which finish_edit ends a remote edit.
FinishRemoteStep ==
  /\ pending_edit # None
  /\ pending_edit' = None
  /\ Unwrap(pending_edit).kind = "Remote"

\* The calls named call among the calls of the handler of this step.
CallsNext(call) == SelectSeq(last_call'.trace, LAMBDA ev : ev.call = call)

\* C8: in every step in which finish_edit ends a remote edit, the scratch
\* file is uploaded exactly when its modification time is strictly greater
\* than the time captured before and a live session exists; the upload is one
\* call, on a session that is not the live one, and writes no remote path but
\* the original one; without an upload the remote tree and the remote panel
\* stay as they are and no listing is made.  The editor's exit status is part
\* of the state and the condition does not read it.
C8_UploadIffNewer_Step ==
  FinishRemoteStep =>
    LET req    == Unwrap(pending_edit)
        newer  == Exists(lfs, req.path) /\ lfs[req.path].mtime > req.mtime_before
        upload == CallsNext("upload_file_fresh")
    IN  /\ Len(upload) = (IF newer /\ sftp # None THEN 1 ELSE 0)
        /\ \A i \in 1..Len(upload) :
             /\ upload[i].sid # Unwrap(sftp).sid
             /\ upload[i].name = FileName(req.remote_path)
        /\ \A q \in (DOMAIN rfs) \cup (DOMAIN rfs') :
             q # req.remote_path => (Exists(rfs, q) /\ Exists(rfs', q) /\ rfs'[q] = rfs[q])
        /\ upload = <<>> =>
             /\ rfs' = rfs
             /\ right' = right
             /\ CallsNext("list_dir") = <<>>
        /\ (upload # <<>> /\ upload[1].ok) =>
             rfs'[req.remote_path].data = lfs[req.path].data

C8_UploadIffNewer == [][C8_UploadIffNewer_Step]_vars

\* C8, its case: an edit saved by the user was uploaded to the original
\* remote path, which now holds the edited content.
C8_Witness ==
  /\ last_call.op = "finish_edit"
  /\ Len(CallsOf("upload_file_fresh")) = 1
  /\ CallsOf("upload_file_fresh")[1].ok
  /\ \E d \in EditedData : rfs[Join(RemoteHome, "b.txt")].data = d

\* C9: in every step in which finish_edit ends a remote edit, the scratch
\* file does not exist afterwards, whichever branch was taken.
C9_ScratchDeleted_Step ==
  FinishRemoteStep => ~Exists(lfs', Unwrap(pending_edit).path)

C10_FailedUploadKeepsRemote_Step ==
  (FinishRemoteStep
     /\ CallsNext("upload_file_fresh") # <<>>
     /\ ~CallsNext("upload_file_fresh")[1].ok) =>
    LET remote == Unwrap(pending_edit).remote_path IN
    /\ Exists(rfs', remote) = Exists(rfs, remote)
    /\ Exists(rfs, remote) => rfs'[remote].data = rfs[remote].data

C10_FailedUploadKeepsRemote == [][C10_FailedUploadKeepsRemote_Step]_vars

\* --------------------------------------------------------------- navigation
\* PanelState::enter_selected; ok is the outcome of read_dir on the new path.
\* A file under the cursor, or an empty list, leaves the panel as it is.
EnterTarget(p) ==
  LET e == Get(p.entries, p.selected) IN
  IF e = None \/ ~Unwrap(e).is_dir THEN None
  ELSE IF Unwrap(e).name = ".." THEN Some(Parent(p.path))
  ELSE Some(Join(p.path, Unwrap(e).name))

enter_selected(p, fs, ok) ==
  IF EnterTarget(p) = None THEN p
  ELSE load_local([p EXCEPT !.path = Unwrap(EnterTarget(p)), !.selected = 0], fs, ok)

\* PanelState::go_up
go_up(p, fs, ok) ==
  IF HasParent(p.path)
  THEN load_local([p EXCEPT !.path = Parent(p.path), !.selected = 0], fs, ok)
  ELSE p

\* An enter_dir that takes the directory entered for the home directory.
enter_dir_rehoming(conn, name) ==
  LET to == IF name = ".." THEN Parent(conn.remote_path) ELSE Join(conn.remote_path, name)
  IN  [conn EXCEPT !.remote_path = to, !.home = to]

\* A go_up that returns to the home directory from the root.
conn_go_up_wrapping(conn) ==
  [conn EXCEPT !.remote_path = IF HasParent(@) THEN Parent(@) ELSE conn.home]

\* SftpConnection::enter_dir and SftpConnection::go_up: the connection with
\* its remote_path moved, before the listing is read.
enter_dir(conn, name) ==
  [conn EXCEPT !.remote_path = IF name = ".." THEN Parent(@) ELSE Join(@, name)]
conn_go_up(conn) ==
  [conn EXCEPT !.remote_path = IF HasParent(@) THEN Parent(@) ELSE @]

\* A remote move that gives up the connection when the listing fails.
RemoteMoveClosing(op, conn, tag) ==
  \E ls_ok \in ListOutcomes(rfs, conn.remote_path) :
    /\ Len(conn.remote_path) <= MaxPathLen
    /\ sftp' = IF ls_ok THEN Some(conn) ELSE None
    /\ last_call' = CallOn(op, <<Unwrap(sftp).remote_path>>,
                           <<Ev("list_dir", "", conn.sid, ls_ok)>>)
    /\ IF ls_ok
       THEN /\ right' = load_remote(right, conn.remote_path, list_dir(conn, rfs))
            /\ status_message' = status_message
       ELSE /\ right' = right
            /\ status_message' = Msg(tag)

\* The tail shared by remote_enter_selected and remote_go_up: list the
\* directory the connection has moved to; load it or report the failure.
\* The call is recorded with the remote_path it found.
RemoteMove(op, conn, tag) ==
  \E ls_ok \in ListOutcomes(rfs, conn.remote_path) :
    /\ Len(conn.remote_path) <= MaxPathLen
    /\ sftp' = Some(conn)
    /\ last_call' = CallOn(op, <<Unwrap(sftp).remote_path>>,
                           <<Ev("list_dir", "", conn.sid, ls_ok)>>)
    /\ IF ls_ok
       THEN /\ right' = load_remote(right, conn.remote_path, list_dir(conn, rfs))
            /\ status_message' = status_message
       ELSE /\ right' = right
            /\ status_message' = Msg(tag)

\* App::remote_enter_selected
remote_enter_selected ==
  LET e == Get(right.entries, right.selected) IN
  IF e = None \/ ~Unwrap(e).is_dir \/ sftp = None
  THEN /\ last_call' = Call("remote_enter_selected", <<>>)
       /\ UNCHANGED <<sftp, right, status_message>>
  ELSE RemoteMove("remote_enter_selected", enter_dir(Unwrap(sftp), Unwrap(e).name),
                  "Verzeichnis oeffnen fehlgeschlagen")

\* App::remote_go_up
remote_go_up ==
  IF sftp = None
  THEN /\ last_call' = Call("remote_go_up", <<>>)
       /\ UNCHANGED <<sftp, right, status_message>>
  ELSE RemoteMove("remote_go_up", conn_go_up(Unwrap(sftp)),
                  "Verzeichnis wechseln fehlgeschlagen")

\* The local half of Enter and Backspace: the panel after the move, and the
\* error of a failed read_dir as the status message.
LocalMove(op, target, moved(_)) ==
  \E rd_ok \in (IF target = None THEN {TRUE} ELSE ReadDirOutcomes(lfs, Unwrap(target))) :
    /\ left' = moved(rd_ok)
    /\ status_message' = IF rd_ok THEN status_message ELSE Msg("read_dir")
    /\ last_call' = Call(op, IF target = None THEN <<>>
                             ELSE <<Ev("load_local", "", 0, rd_ok)>>)
    /\ UNCHANGED <<sftp, right>>

\* handle_main_key, Enter
KeyEnter ==
  /\ MainContext
  /\ IF active = "Left"
     THEN LocalMove("enter_selected", EnterTarget(left),
                    LAMBDA ok : enter_selected(left, lfs, ok))
     ELSE IF is_connected
     THEN /\ remote_enter_selected
          /\ left' = left
     ELSE /\ last_call' = Call("Enter", <<>>)
          /\ UNCHANGED <<sftp, left, right, status_message>>
  /\ UNCHANGED <<running, active, upload_progress, download_progress,
                 delete_dialog, rename_dialog, mkdir_dialog, shell_dialog, profile_dialog, env, password_dialog, pending_edit,
                 progress, worker, lfs, rfs>>

\* handle_main_key, Backspace
KeyBackspace ==
  /\ MainContext
  /\ IF active = "Left"
     THEN LocalMove("go_up",
                    IF HasParent(left.path) THEN Some(Parent(left.path)) ELSE None,
                    LAMBDA ok : go_up(left, lfs, ok))
     ELSE IF is_connected
     THEN /\ remote_go_up
          /\ left' = left
     ELSE /\ last_call' = Call("Backspace", <<>>)
          /\ UNCHANGED <<sftp, left, right, status_message>>
  /\ UNCHANGED <<running, active, upload_progress, download_progress,
                 delete_dialog, rename_dialog, mkdir_dialog, shell_dialog, profile_dialog, env, password_dialog, pending_edit,
                 progress, worker, lfs, rfs>>

\* handle_main_key, *: mark_all on the active panel.
KeyStar ==
  /\ MainContext
  /\ IF active = "Left"
     THEN left' = mark_all(left) /\ right' = right
     ELSE right' = mark_all(right) /\ left' = left
  /\ last_call' = Call("Star", <<>>)
  /\ UNCHANGED <<running, rename_dialog, mkdir_dialog, shell_dialog, profile_dialog, env, password_dialog, status_message, sftp,
                 active, upload_progress, download_progress, delete_dialog,
                 pending_edit, progress, worker, lfs, rfs>>

\* ------------------------------------------------------- rename (F2), mkdir (F7)
\* The tree after old, with everything below it, has moved to new.
MoveTree(fs, old, new) ==
  LET base  == RemoveTree(fs, new)
      moved == {q \in DOMAIN fs : Len(q) >= Len(old) /\ SubSeq(q, 1, Len(old)) = old}
      dest(q) == new \o SubSeq(q, Len(old) + 1, Len(q))
      keep  == (DOMAIN base) \ moved
  IN  [q \in keep \cup {dest(m) : m \in moved} |->
         IF q \in keep THEN fs[q]
         ELSE fs[CHOOSE m \in moved : dest(m) = q]]

\* std::fs::rename / sftp.rename: it can always fail; it can succeed when the
\* source exists and the target is free or both are files.
fs_rename(fs, old, new) ==
  {Outcome(fs, FALSE, <<>>)}
    \cup (IF Exists(fs, old) /\ (~Exists(fs, new) \/ (IsFile(fs, old) /\ IsFile(fs, new)))
          THEN {Outcome(MoveTree(fs, old, new), TRUE, <<>>)} ELSE {})

\* std::fs::create_dir / sftp.mkdir: it can always fail; it can succeed when
\* the parent is a directory, the name is free and the path is not too long.
create_dir(fs, p) ==
  {Outcome(fs, FALSE, <<>>)}
    \cup (IF IsDir(fs, Parent(p)) /\ ~Exists(fs, p) /\ Len(p) <= MaxDepth
          THEN {Outcome(PutNode(fs, p, DirNode), TRUE, <<>>)} ELSE {})

\* RenameDialog::new and MkdirDialog::new.  The text of the input field is
\* drawn when Enter is pressed.
RenameDialog(side, original) == [side |-> side, original |-> original]
MkdirDialog(side) == [side |-> side]

\* The texts typed into the input field of the two dialogs, trimmed.
RenameInputs == {"", "A"}
MkdirInputs == {"", "A"}

\* App::open_rename_dialog
open_rename_dialog ==
  LET panel == IF active = "Left" THEN left ELSE right
      e == Get(panel.entries, panel.selected)
  IN  /\ IF (active = "Right" /\ ~is_connected) \/ e = None \/ Unwrap(e).name = ".."
         THEN rename_dialog' = rename_dialog
         ELSE rename_dialog' = Some(RenameDialog(active, Unwrap(e).name))
      /\ last_call' = Call("open_rename_dialog", <<>>)
      /\ UNCHANGED <<running, mkdir_dialog, shell_dialog, profile_dialog, env, password_dialog, status_message, sftp, left, right,
                     active, upload_progress, download_progress, delete_dialog,
                     pending_edit, progress, worker, lfs, rfs>>

\* handle_main_key, F2
KeyF2 == MainContext /\ open_rename_dialog

\* App::open_mkdir_dialog
open_mkdir_dialog ==
  /\ IF active = "Right" /\ ~is_connected
     THEN mkdir_dialog' = mkdir_dialog
     ELSE mkdir_dialog' = Some(MkdirDialog(active))
  /\ last_call' = Call("open_mkdir_dialog", <<>>)
  /\ UNCHANGED <<running, rename_dialog, shell_dialog, profile_dialog, env, password_dialog, status_message, sftp, left, right,
                 active, upload_progress, download_progress, delete_dialog,
                 pending_edit, progress, worker, lfs, rfs>>

\* handle_main_key, F7
KeyF7 == MainContext /\ open_mkdir_dialog

\* A remote mutation that failed: the handler sets the message and returns.
MutationFailed(op, call, name, tag) ==
  /\ status_message' = Msg(tag)
  /\ last_call' = Call(op, <<Ev(call, name, Unwrap(sftp).sid, FALSE)>>)
  /\ UNCHANGED <<right, rfs>>

\* The tail shared by confirm_rename and confirm_mkdir: apply the outcome out
\* of the mutation call on panel side; after a success reload the listing.
Mutated(op, call, side, name, out, ok_msg, err_tag) ==
  IF side = "Left"
  THEN /\ IF out.ok
          THEN \E rd_ok \in ReadDirOutcomes(out.fs, left.path) :
                 /\ lfs' = out.fs
                 /\ left' = load_local(left, out.fs, rd_ok)
                 /\ status_message' = ok_msg
                 /\ last_call' = Call(op, <<Ev(call, name, 0, TRUE),
                                            Ev("load_local", "", 0, rd_ok)>>)
          ELSE /\ status_message' = Msg(err_tag)
               /\ last_call' = Call(op, <<Ev(call, name, 0, FALSE)>>)
               /\ UNCHANGED <<left, lfs>>
       /\ UNCHANGED <<right, rfs>>
  ELSE /\ IF out.ok
          THEN LET conn == Unwrap(sftp) IN
               \E ls_ok \in ListOutcomes(out.fs, conn.remote_path) :
                 /\ rfs' = out.fs
                 /\ last_call' = Call(op, <<Ev(call, name, conn.sid, TRUE),
                                            Ev("list_dir", "", conn.sid, ls_ok)>>)
                 /\ IF ls_ok
                    THEN /\ right' = load_remote(right, conn.remote_path,
                                                 list_dir(conn, out.fs))
                         /\ status_message' = ok_msg
                    ELSE /\ right' = right
                         /\ status_message' = Msg("Listing fehlgeschlagen")
          ELSE MutationFailed(op, call, name, err_tag)
       /\ UNCHANGED <<left, lfs>>

\* The handler returned before touching anything but the dialog.
Returned(op) ==
  /\ last_call' = Call(op, <<>>)
  /\ UNCHANGED <<status_message, left, right, lfs, rfs>>

\* App::confirm_rename
confirm_rename ==
  /\ IF rename_dialog = None
     THEN Returned("confirm_rename") /\ rename_dialog' = rename_dialog
     ELSE LET dlg == Unwrap(rename_dialog) IN
          /\ rename_dialog' = None
          /\ \E new_name \in RenameInputs :
               IF new_name = "" \/ new_name = dlg.original
               THEN Returned("confirm_rename")
               ELSE IF dlg.side = "Right" /\ sftp = None
               THEN Returned("confirm_rename")
               ELSE LET dir == IF dlg.side = "Left" THEN left.path
                               ELSE Unwrap(sftp).remote_path
                        fs  == IF dlg.side = "Left" THEN lfs ELSE rfs
                    IN  \E out \in fs_rename(fs, Join(dir, dlg.original), Join(dir, new_name)) :
                          Mutated("confirm_rename", "rename", dlg.side, dlg.original, out,
                                  StatusLine("Umbenannt", 0, 0, new_name),
                                  "Umbenennen fehlgeschlagen")
  /\ UNCHANGED <<running, mkdir_dialog, shell_dialog, profile_dialog, env, password_dialog, sftp, active, upload_progress,
                 download_progress, delete_dialog, pending_edit, progress, worker>>

\* App::confirm_mkdir
confirm_mkdir ==
  /\ IF mkdir_dialog = None
     THEN Returned("confirm_mkdir") /\ mkdir_dialog' = mkdir_dialog
     ELSE LET dlg == Unwrap(mkdir_dialog) IN
          /\ mkdir_dialog' = None
          /\ \E name \in MkdirInputs :
               IF name = ""
               THEN Returned("confirm_mkdir")
               ELSE IF dlg.side = "Right" /\ sftp = None
               THEN Returned("confirm_mkdir")
               ELSE LET dir == IF dlg.side = "Left" THEN left.path
                               ELSE Unwrap(sftp).remote_path
                        fs  == IF dlg.side = "Left" THEN lfs ELSE rfs
                    IN  \E out \in create_dir(fs, Join(dir, name)) :
                          Mutated("confirm_mkdir", "mkdir", dlg.side, name, out,
                                  StatusLine("Verzeichnis erstellt", 0, 0, name),
                                  "Verzeichnis erstellen fehlgeschlagen")
  /\ UNCHANGED <<running, rename_dialog, shell_dialog, profile_dialog, env, password_dialog, sftp, active, upload_progress,
                 download_progress, delete_dialog, pending_edit, progress, worker>>

\* handle_events with a dialog open: delete has priority over rename, rename
\* over mkdir.
RenameContext ==
  /\ running /\ pending_edit = None /\ password_dialog = None
  /\ delete_dialog = None /\ rename_dialog # None
MkdirContext ==
  /\ running /\ pending_edit = None /\ password_dialog = None /\ delete_dialog = None
  /\ rename_dialog = None /\ mkdir_dialog # None

\* handle_rename_key: Enter and Esc.
RenameKeyEnter == RenameContext /\ confirm_rename
RenameKeyEsc ==
  /\ RenameContext
  /\ rename_dialog' = None
  /\ last_call' = Call("Esc", <<>>)
  /\ UNCHANGED <<running, mkdir_dialog, shell_dialog, profile_dialog, env, password_dialog, status_message, sftp, left, right,
                 active, upload_progress, download_progress, delete_dialog,
                 pending_edit, progress, worker, lfs, rfs>>

\* handle_mkdir_key: Enter and Esc.
MkdirKeyEnter == MkdirContext /\ confirm_mkdir
MkdirKeyEsc ==
  /\ MkdirContext
  /\ mkdir_dialog' = None
  /\ last_call' = Call("Esc", <<>>)
  /\ UNCHANGED <<running, rename_dialog, shell_dialog, profile_dialog, env, password_dialog, status_message, sftp, left, right,
                 active, upload_progress, download_progress, delete_dialog,
                 pending_edit, progress, worker, lfs, rfs>>

\* ------------------------------------------------- the panels, driven by keys
\* One file of one chunk in each home directory.
TinyLocalTree ==
  [q \in {Root, LocalHome, Join(LocalHome, "x")} |->
     IF q = Join(LocalHome, "x") THEN FileNode(<<<<"l", 10>>>>) ELSE DirNode]
TinyRemoteTree ==
  [q \in {Root, RemoteHome, Join(RemoteHome, "b.txt")} |->
     IF q = Join(RemoteHome, "b.txt") THEN FileNode(<<<<"r", 10>>>>) ELSE DirNode]

\* A transfer thread that has written its last state and exited, and the
\* progress record it leaves for the poll.
ExitedWorker(kind, path, result) ==
  [NoWorker EXCEPT !.kind = kind, !.pc = "exit", !.cur = path,
                   !.dst = IF kind = "up" THEN RemoteHome ELSE LocalHome,
                   !.total = 10, !.result = result,
                   !.tried = <<path>>,
                   !.done = IF result = "ok" THEN <<path>> ELSE <<>>]
LeftProgress(path, result) ==
  [state |-> FinalState(Running, result), current_file |-> FileName(path),
   bytes_done |-> IF result = "ok" THEN 10 ELSE 0, bytes_total |-> 10,
   files_done |-> IF result = "ok" THEN 1 ELSE 0, files_total |-> 1]

\* How the keys find the App: the active panel, and what is in flight.
\* Nothing, or a batch of one file whose thread has ended and which the next
\* poll will pick up, into the listing of the panel the keys go to.
InFlight ==
  {[active |-> "Left", up |-> 0, down |-> 0, kind |-> "none", result |-> "ok"],
   [active |-> "Right", up |-> 0, down |-> 0, kind |-> "none", result |-> "ok"],
   [active |-> "Right", up |-> 1, down |-> 0, kind |-> "up", result |-> "ok"],
   [active |-> "Left", up |-> 0, down |-> 1, kind |-> "down", result |-> "ok"]}

\* A connected App on these trees, the cursor of each panel on its file.
\* The keys go to the panel that is active at the start, the local one or
\* the remote one.
InitNav ==
  /\ env = HomeEnv
  /\ running = TRUE
  /\ status_message = Msg("Verbunden")
  /\ sftp = Some(Conn(1, RemoteHome))
  /\ delete_dialog = None
  /\ rename_dialog = None
  /\ mkdir_dialog = None
  /\ password_dialog = None
  /\ shell_dialog = None
  /\ profile_dialog = None
  /\ pending_edit = None
  /\ \E f \in InFlight :
       LET path == IF f.kind = "up" THEN Join(LocalHome, "x")
                   ELSE Join(RemoteHome, "b.txt")
       IN  /\ active = f.active
           /\ upload_progress = f.up
           /\ download_progress = f.down
           /\ progress = [h \in Handles |->
                            IF f.kind # "none" /\ h = 1
                            THEN LeftProgress(path, f.result) ELSE NoProgress]
           /\ worker = [h \in Handles |->
                          IF f.kind # "none" /\ h = 1
                          THEN ExitedWorker(f.kind, path, f.result) ELSE NoWorker]
  /\ last_call = Call("do_connect", <<Ev("connect", "", 1, TRUE)>>)
  /\ lfs = TinyLocalTree
  /\ rfs = TinyRemoteTree
  /\ left = move_down(load_local(NewPanel(Cwd), lfs, TRUE))
  /\ right = move_down(load_remote(NewPanel(Cwd), RemoteHome,
                                   list_dir(Conn(1, RemoteHome), rfs)))

\* The keys of the main context that move, mark, navigate and mutate, the
\* keys of the three dialogs, connect and disconnect, and the polls of every
\* frame, which pick up the batch that was in flight at the start.
NextNav ==
  \/ KeyUpDown
  \/ KeySpace
  \/ KeyStar
  \/ KeyEnter
  \/ KeyBackspace
  \/ KeyF2
  \/ RenameKeyEnter
  \/ RenameKeyEsc
  \/ KeyF7
  \/ MkdirKeyEnter
  \/ MkdirKeyEsc
  \/ KeyF8
  \/ DeleteKeyEnter
  \/ DeleteKeyEsc
  \/ KeyF3
  \/ DoConnect
  \/ Quit
  \/ poll_upload
  \/ poll_download

SpecNav == InitNav /\ [][NextNav]_vars

\* ------------------------------------------------------------ strings, paths
\* A string is the sequence of its pieces: the characters "~", "/" and " ",
\* and the names of the trees, which hold none of these characters.
RECURSIVE trim_start(_)
trim_start(s) == IF s # <<>> /\ Head(s) = " " THEN trim_start(Tail(s)) ELSE s
RECURSIVE trim_end(_)
trim_end(s) ==
  IF s # <<>> /\ s[Len(s)] = " " THEN trim_end(SubSeq(s, 1, Len(s) - 1)) ELSE s
\* str::trim
trim(s) == trim_end(trim_start(s))
\* str::starts_with
starts_with(s, pre) == Len(s) >= Len(pre) /\ SubSeq(s, 1, Len(pre)) = pre
\* &s[n..]
Skip(s, n) == SubSeq(s, n + 1, Len(s))

RECURSIVE PathStr(_)
\* Path::to_string_lossy of an absolute path: "/" for the root, else "/a/b".
PathStr(p) ==
  IF p = Root THEN <<"/">>
  ELSE IF Len(p) = 1 THEN <<"/", p[1]>>
  ELSE PathStr(Parent(p)) \o <<"/", FileName(p)>>

RECURSIVE Components(_, _)
\* The components of a path string: the pieces between separators, empty
\* ones dropped.  A component of several pieces is a name no tree holds.
Components(s, cur) ==
  LET name == IF Len(cur) = 1 THEN cur[1] ELSE "?"
      done == IF cur = <<>> THEN <<>> ELSE <<name>>
  IN  IF s = <<>> THEN done
      ELSE IF Head(s) = "/" THEN done \o Components(Tail(s), <<>>)
      ELSE Components(Tail(s), Append(cur, Head(s)))

\* PathBuf::from(string): whether the path is absolute, and its components.
PathFrom(s) == [abs |-> s # <<>> /\ Head(s) = "/", comps |-> Components(s, <<>>)]
\* The PathBuf of an absolute path of the trees.
AbsPath(p) == [abs |-> TRUE, comps |-> p]
\* Path::join: an absolute argument replaces the base.
path_join(base, s) ==
  IF PathFrom(s).abs THEN PathFrom(s)
  ELSE [base EXCEPT !.comps = @ \o PathFrom(s).comps]
\* The place in the local tree a PathBuf names: a relative one is resolved
\* against the working directory (None when there is none).
LocalPlace(pb) ==
  IF pb.abs THEN Some(pb.comps)
  ELSE IF env.cwd # None THEN Some(Unwrap(env.cwd) \o pb.comps)
  ELSE None

\* do_connect, local start path (app.rs 801-811): "~" and "~/rest" are
\* expanded with dirs_or_cwd(), anything else is taken as it is.
ExpandLocal(trimmed) ==
  IF trimmed = <<"~">> THEN AbsPath(dirs_or_cwd)
  ELSE IF starts_with(trimmed, <<"~", "/">>)
  THEN path_join(AbsPath(dirs_or_cwd), Skip(trimmed, 2))
  ELSE PathFrom(trimmed)

\* An expansion that takes the current remote path for the home directory.
ExpandRemoteFromCurrent(conn, raw) ==
  IF raw = <<"~">> THEN PathStr(conn.remote_path)
  ELSE IF starts_with(raw, <<"~", "/">>) THEN PathStr(conn.remote_path) \o Skip(raw, 1)
  ELSE raw

\* change_to_absolute (sftp.rs 124-134): "~" and "~/rest" are expanded with
\* the home captured at connect, by string concatenation.
ExpandRemote(conn, raw) ==
  IF raw = <<"~">> THEN PathStr(conn.home)
  ELSE IF starts_with(raw, <<"~", "/">>) THEN PathStr(conn.home) \o Skip(raw, 1)
  ELSE raw

\* sftp.realpath on success: the server resolves a relative path against the
\* login directory and drops repeated separators.
realpath(conn, s) ==
  IF PathFrom(s).abs THEN PathFrom(s).comps ELSE conn.home \o PathFrom(s).comps

\* The result of a call on the connection: the connection it leaves, and
\* whether it returned Ok (the listing is then that of remote_path).  stage
\* names the call that failed.
ConnResult(conn, ok, stage) == [conn |-> conn, ok |-> ok, stage |-> stage]

\* A change_to_absolute that assigns remote_path before it stats the path.
change_to_absolute_moving_first(conn, raw, fs) ==
  LET canonical == realpath(conn, ExpandRemote(conn, raw))
      moved == [conn EXCEPT !.remote_path = canonical]
  IN  {ConnResult(conn, FALSE, "realpath")}
        \cup (IF Exists(fs, canonical) THEN {ConnResult(moved, FALSE, "stat")} ELSE {})
        \cup (IF IsFile(fs, canonical) THEN {ConnResult(moved, FALSE, "is_dir")} ELSE {})
        \cup (IF IsDir(fs, canonical)
              THEN {ConnResult(moved, ok, "readdir") : ok \in ListOutcomes(fs, canonical)}
              ELSE {})

\* SftpConnection::change_to_absolute: every result the call can have.
change_to_absolute(conn, raw, fs) ==
  LET canonical == realpath(conn, ExpandRemote(conn, raw))
      moved == [conn EXCEPT !.remote_path = canonical]
  IN  {ConnResult(conn, FALSE, "realpath")}
        \cup (IF Exists(fs, canonical) THEN {ConnResult(conn, FALSE, "stat")} ELSE {})
        \cup (IF IsFile(fs, canonical) THEN {ConnResult(conn, FALSE, "is_dir")} ELSE {})
        \cup (IF IsDir(fs, canonical)
              THEN {ConnResult(moved, ok, "readdir") : ok \in ListOutcomes(fs, canonical)}
              ELSE {})

\* ------------------------------------------------- connecting with a profile
\* The two start paths of a Profile, each an Option<String>.
Profile(remote_path, local_start_path) ==
  [remote_path |-> remote_path, local_start_path |-> local_start_path]

\* An Option<String> trimmed: the empty string when it is None.
Trimmed(o) == IF o = None THEN <<>> ELSE trim(Unwrap(o))

\* do_connect after a successful connect (app.rs 749-776): the connection,
\* whether list_result is Ok, the message, and the calls made.  A failed
\* change_to_absolute falls back to conn.list_dir().
RemoteStart(conn0, start) ==
  LET listed(conn, tag, pre) ==
        {[conn |-> conn, ok |-> ls_ok, msg |-> Msg(tag),
          trace |-> Append(pre, Ev("list_dir", "", conn.sid, ls_ok))] :
           ls_ok \in ListOutcomes(rfs, conn.remote_path)}
  IN  IF start = <<>>
      THEN listed(conn0, "Verbunden", <<>>)
      ELSE UNION {
             IF r.ok
             THEN {[conn |-> r.conn, ok |-> TRUE,
                    msg |-> StatusLine("Verbunden", 0, 0, "Pfad"),
                    trace |-> <<Ev("change_to_absolute", r.stage, conn0.sid, TRUE)>>]}
             ELSE listed(r.conn, "Start-Verzeichnis nicht erreichbar",
                         <<Ev("change_to_absolute", r.stage, conn0.sid, FALSE)>>)
             : r \in change_to_absolute(conn0, start, rfs)}

\* do_connect, local start path (app.rs 799-823): the directory the left
\* panel moves to, None when the path is empty or names no directory.
LocalStart(start) ==
  IF start = <<>> THEN None
  ELSE LET place == LocalPlace(ExpandLocal(start)) IN
       IF place # None /\ IsDir(lfs, Unwrap(place)) THEN place ELSE None

\* PasswordDialog::new, and the dialog with its fields: the profile, the
\* password typed so far (its characters are not told apart) and the error.
PasswordDialogOf(profile, input, error) ==
  [profile |-> profile, input |-> input, error |-> error]
PasswordDialog(profile) == PasswordDialogOf(profile, <<>>, None)

\* A failed connect that closes the password dialog and reports the error in
\* the status line.
ConnectFailedClosing ==
  /\ password_dialog' = None
  /\ status_message' = Msg("Verbindung fehlgeschlagen")

\* do_connect, the Err arm of SftpConnection::connect (app.rs 825-832): the
\* error goes into the open password dialog, else into the status line.
ConnectFailed ==
  IF password_dialog # None
  THEN /\ password_dialog' = Some([Unwrap(password_dialog) EXCEPT
                                     !.error = Some("Verbindung fehlgeschlagen")])
       /\ status_message' = status_message
  ELSE /\ password_dialog' = None
       /\ status_message' = Msg("Verbindung fehlgeschlagen")

\* App::do_connect.  ok is the outcome of SftpConnection::connect.  The
\* profile dialog is the caller's: it is closed before do_connect is called.
do_connect(profile) ==
  /\ \E ok \in BOOLEAN :
       IF ~ok
       THEN /\ ConnectFailed
            /\ last_call' = Call("do_connect", <<Ev("connect", "", 0, FALSE)>>)
            /\ UNCHANGED <<sftp, left, right>>
       ELSE /\ HasFreeSid
            /\ password_dialog' = None
            /\ \E r \in RemoteStart(Conn(FreshSid, RemoteHome), Trimmed(profile.remote_path)) :
               LET target == LocalStart(Trimmed(profile.local_start_path))
                   msg == IF r.ok THEN r.msg ELSE Msg("Verbindung ok, Listing fehlgeschlagen")
               IN  /\ sftp' = Some(r.conn)
                   /\ right' = IF r.ok
                               THEN load_remote(right, r.conn.remote_path, list_dir(r.conn, rfs))
                               ELSE right
                   /\ \E rd_ok \in (IF target = None THEN {TRUE}
                                    ELSE ReadDirOutcomes(lfs, Unwrap(target))) :
                        /\ left' = IF target = None THEN left
                                   ELSE load_local([left EXCEPT !.path = Unwrap(target),
                                                                !.selected = 0], lfs, rd_ok)
                        /\ status_message' = IF rd_ok THEN msg ELSE [msg EXCEPT !.n = 1]
                        /\ last_call' =
                             CallOn("do_connect",
                                    <<Trimmed(profile.remote_path),
                                      Trimmed(profile.local_start_path)>>,
                                  <<Ev("connect", "", r.conn.sid, TRUE)>> \o r.trace
                                    \o (IF target = None THEN <<>>
                                        ELSE <<Ev("load_local", "", 0, rd_ok)>>))
  /\ UNCHANGED <<running, rename_dialog, mkdir_dialog, shell_dialog, env, active,
                 upload_progress, download_progress, delete_dialog, pending_edit,
                 progress, worker, lfs, rfs>>

\* The start paths of the profiles the user connects with.
RemoteStarts ==
  {None, Some(<<"~">>), Some(<<"~", "/", "A">>), Some(<<" ", "/", "u", "/", "A", " ">>),
   Some(<<"/", "u", "/", "b.txt">>)}
LocalStarts ==
  {None, Some(<<"~">>), Some(<<"~", "/", "A">>), Some(<<" ", "/", "u", "/", "A">>),
   Some(<<"/", "u", "/", "a.txt">>)}
Profiles ==
  {Profile(r, None) : r \in RemoteStarts} \cup {Profile(None, l) : l \in LocalStarts}
    \cup {Profile(Some(<<"~", "/", "A">>), Some(<<"~">>))}

\* handle_list_key, Enter on a profile: begin_connect, and do_connect with it.
ConnectProfile ==
  /\ MainContext
  /\ \E profile \in Profiles : do_connect(profile)
  /\ profile_dialog' = None

\* SftpConnection::change_to_absolute called on the live connection.
CallChangeToAbsolute ==
  /\ running /\ sftp # None
  /\ \E raw \in {Unwrap(s) : s \in RemoteStarts \ {None}} :
     \E r \in change_to_absolute(Unwrap(sftp), trim(raw), rfs) :
       /\ sftp' = Some(r.conn)
       /\ right' = IF r.ok
                   THEN load_remote(right, r.conn.remote_path, list_dir(r.conn, rfs))
                   ELSE right
       /\ last_call' = CallOn("change_to_absolute",
                              <<trim(raw), PathStr(Unwrap(sftp).remote_path)>>,
                              <<Ev("change_to_absolute", r.stage, r.conn.sid, r.ok)>>)
  /\ UNCHANGED <<running, rename_dialog, mkdir_dialog, shell_dialog, profile_dialog, env, password_dialog, status_message, left,
                 active, upload_progress, download_progress, delete_dialog,
                 pending_edit, progress, worker, lfs, rfs>>

\* The environments a process is started in: the working directory is the
\* home directory, a directory below it, or cannot be read; HOME may be unset.
Envs ==
  {Env(Some(LocalHome), Some(LocalHome)), Env(Some(Join(LocalHome, "A")), Some(LocalHome)),
   Env(None, Some(LocalHome)), Env(None, None)}

\* App::new in each of these environments: nothing is connected, the left
\* panel lists dirs_or_cwd(), the right panel is empty.
InitConnect ==
  /\ env \in Envs
  /\ running = TRUE
  /\ status_message = NoMessage
  /\ sftp = None
  /\ active = "Right"
  /\ upload_progress = 0
  /\ download_progress = 0
  /\ delete_dialog = None
  /\ rename_dialog = None
  /\ mkdir_dialog = None
  /\ password_dialog = None
  /\ shell_dialog = None
  /\ profile_dialog = None
  /\ pending_edit = None
  /\ progress = [h \in Handles |-> NoProgress]
  /\ worker = [h \in Handles |-> NoWorker]
  /\ last_call = Call("new", <<>>)
  /\ lfs = LocalTree
  /\ rfs = RemoteTree
  /\ left = load_local(NewPanel(dirs_or_cwd), lfs, TRUE)
  /\ right = NewPanel(dirs_or_cwd)

\* Connecting with a profile, moving about the remote tree, jumping to a path
\* and disconnecting.
NextConnect ==
  \/ ConnectProfile
  \/ KeyF3
  \/ KeyEnter
  \/ KeyBackspace
  \/ CallChangeToAbsolute

SpecConnect == InitConnect /\ [][NextConnect]_vars

\* ------------------------------------------------------------ claims C11-C20
\* The cursor of panel p is an index into its entry list.
CursorValid(p) == p.entries # <<>> => p.selected < Len(p.entries)

\* C11: in every reachable state of either panel the cursor (selected) is a
\* valid index into the entry list when the list is not empty, reloads whose
\* directory read fails included.
C11_CursorValid == CursorValid(left) /\ CursorValid(right)

\* The batch of handle h is the download of one file picked in the remote
\* panel: its only entry has been taken from the work list and is written
\* into the local home directory itself, not into a directory below it.
SingleFileDownload(h) ==
  /\ worker[h].kind = "down"
  /\ worker[h].todo = <<>>
  /\ worker[h].tried = <<worker[h].cur>>
  /\ worker[h].dst = LocalHome

\* C19, in every step of a single-file download: bytes_done does not
\* decrease from one read of the record to the next.
C19_BytesNeverDecrease ==
  \A h \in Handles :
    (SingleFileDownload(h) /\ SingleFileDownload(h)') =>
      progress'[h].bytes_done >= progress[h].bytes_done

\* C19, in every step of a single-file download: files_done changes only
\* from 0 to 1, and only when every chunk of the file has been written.
C19_FilesDoneOnce ==
  \A h \in Handles :
    (SingleFileDownload(h) /\ SingleFileDownload(h)'
       /\ progress'[h].files_done # progress[h].files_done) =>
      /\ progress[h].files_done = 0
      /\ progress'[h].files_done = 1
      /\ worker[h].pc = "chunks"
      /\ worker[h].data = <<>>

\* C19, in every state: a single-file download that is Done has counted its
\* file, and its bytes_done equals its bytes_total.
C19_DoneReachesTotal ==
  \A h \in Handles :
    (SingleFileDownload(h) /\ progress[h].state = Done) =>
      /\ progress[h].files_done = 1
      /\ progress[h].bytes_done = progress[h].bytes_total

\* C19: for a single-file download bytes_done never decreases, bytes_done
\* equals bytes_total when the batch is Done, and files_done goes from 0 to 1
\* exactly once, only after the last chunk has been written.
C19_SingleFileProgress ==
  /\ []C19_DoneReachesTotal
  /\ [][C19_BytesNeverDecrease /\ C19_FilesDoneOnce]_vars

\* The last handler called load_local on the left panel.
LoadedLocal == CallsOf("load_local") # <<>>
\* The last handler obtained a remote listing, which it loads into the right
\* panel with load_remote.
LoadedRemote ==
  \E i \in 1..Len(last_call.trace) :
    last_call.trace[i].call = "list_dir" /\ last_call.trace[i].ok

\* C12, in every state: the panel that the last handler reloaded has no marks.
C12_ReloadedUnmarked ==
  /\ LoadedLocal => left.marked = {}
  /\ LoadedRemote => right.marked = {}

\* C12, in every step: a panel whose path or entries change loses its marks.
C12_NewListingUnmarked ==
  /\ (left'.path # left.path \/ left'.entries # left.entries) => left'.marked = {}
  /\ (right'.path # right.path \/ right'.entries # right.entries) => right'.marked = {}

\* C12: every reload of a panel's listing (navigation, refresh after a
\* transfer, refresh after rename, mkdir or delete) leaves the marked set of
\* that panel empty.
C12_ReloadClearsMarks == []C12_ReloadedUnmarked /\ [][C12_NewListingUnmarked]_vars

\* C12, its case: a batch built from two marks was deleted on the local
\* side, and the refresh that followed left the panel without marks.
C12_Witness ==
  /\ last_call.op = "confirm_delete"
  /\ Len(Deletions(last_call.trace)) = 2
  /\ LoadedLocal
  /\ left.marked = {}

\* The id of the live session, 0 when there is none.
LiveSid == IF sftp = None THEN 0 ELSE Unwrap(sftp).sid
\* The handler call was a do_connect whose SftpConnection::connect returned
\* the session sid.
ConnectedAs(call, sid) ==
  /\ call.op = "do_connect"
  /\ \E i \in 1..Len(call.trace) : call.trace[i] = Ev("connect", "", sid, TRUE)

\* C16, in every step: the live session appears, or is replaced by another
\* one, only in a do_connect whose connect succeeded, and it goes away only in
\* disconnect or quit; every other step, failing or not, keeps the session.
C16_SessionStep ==
  /\ (LiveSid' # LiveSid /\ LiveSid' # 0) => ConnectedAs(last_call', LiveSid')
  /\ (LiveSid # 0 /\ LiveSid' = 0) => last_call'.op \in {"disconnect", "quit"}

\* C16: the live session changes from absent to present only by a successful
\* connect and from present to absent only by disconnect or quit.
C16_SessionLifetime == [][C16_SessionStep]_vars

\* C16, its case: a remote rename has just failed on the live session, which
\* is still the live session.
C16_Witness ==
  /\ last_call.op = "confirm_rename"
  /\ LiveSid # 0
  /\ Len(last_call.trace) = 1
  /\ last_call.trace[1].call = "rename"
  /\ last_call.trace[1].sid = LiveSid
  /\ ~last_call.trace[1].ok

\* The call ev of a handler is a mutation on the live session: a rename, a
\* mkdir, an unlink or an rmdir_recursive.
IsRemoteMutation(ev) ==
  ev.sid # 0 /\ ev.call \in {"rename", "mkdir", "delete_file", "delete_dir"}

\* C20: every remote mutation (rename, mkdir, delete) that a handler executes
\* is followed, in the same handler, by a listing of the remote directory,
\* whether the mutation succeeded or failed.
C20_RefreshAfterMutation ==
  \A i \in 1..Len(last_call.trace) :
    IsRemoteMutation(last_call.trace[i]) =>
      \E j \in (i + 1)..Len(last_call.trace) : last_call.trace[j].call = "list_dir"

\* ------------------------------------------------- picking what to act on
\* A connected App on the small trees whose panels list the two home
\* directories, the cursor of each on "..", nothing marked.
InitPick ==
  /\ env = HomeEnv
  /\ running = TRUE
  /\ status_message = Msg("Verbunden")
  /\ sftp = Some(Conn(1, RemoteHome))
  /\ active = "Left"
  /\ upload_progress = 0
  /\ download_progress = 0
  /\ delete_dialog = None
  /\ rename_dialog = None
  /\ mkdir_dialog = None
  /\ password_dialog = None
  /\ shell_dialog = None
  /\ profile_dialog = None
  /\ pending_edit = None
  /\ progress = [h \in Handles |-> NoProgress]
  /\ worker = [h \in Handles |-> NoWorker]
  /\ last_call = Call("do_connect", <<Ev("connect", "", 1, TRUE)>>)
  /\ lfs = SmallLocalTree
  /\ rfs = SmallRemoteTree
  /\ left = load_local(NewPanel(Cwd), lfs, TRUE)
  /\ right = load_remote(NewPanel(Cwd), RemoteHome, list_dir(Conn(1, RemoteHome), rfs))

\* The keys that move the cursor, mark and pick the target of a rename, a
\* delete, an edit, an upload or a download, and the edit round trip.  The dialogs are
\* left with Esc, and the thread of a batch is not scheduled.
NextPick ==
  \/ KeyTab
  \/ KeyUpDown
  \/ KeySpace
  \/ KeyStar
  \/ KeyF2
  \/ RenameKeyEsc
  \/ KeyF8
  \/ DeleteKeyEsc
  \/ KeyF4
  \/ launch_editor
  \/ finish_edit
  \/ KeyF5
  \/ KeyF6

SpecPick == InitPick /\ [][NextPick]_vars

\* No mark of panel p is on the index of a ".." entry.
NoDotDotMarked(p) ==
  \A i \in p.marked : i < Len(p.entries) => p.entries[i + 1].name # ".."
\* No entry of the sequence es is "..".
NoDotDot(es) == \A i \in 1..Len(es) : es[i].name # ".."

\* C13: the synthetic ".." entry is never marked and never targeted: no
\* marked set holds its index, and no rename dialog, delete dialog, upload
\* batch, download batch or edit request names it.
C13_DotDotUntouched ==
  /\ NoDotDotMarked(left) /\ NoDotDotMarked(right)
  /\ rename_dialog # None => Unwrap(rename_dialog).original # ".."
  /\ delete_dialog # None => NoDotDot(Unwrap(delete_dialog).entries)
  /\ \A h \in Handles :
       /\ \A i \in 1..Len(worker[h].todo) : FileName(worker[h].todo[i].src) # ".."
       /\ worker[h].cur # <<>> => FileName(worker[h].cur) # ".."
  /\ pending_edit # None =>
       /\ FileName(Unwrap(pending_edit).path) # ".."
       /\ Unwrap(pending_edit).kind = "Remote" =>
            FileName(Unwrap(pending_edit).remote_path) # ".."

\* C13, its case: the cursor is on ".." and nothing is marked, and the key
\* pressed there (F2, F8, F4, F5 or F6) has picked nothing.
C13_Witness ==
  /\ left.selected = 0 /\ left.entries[1].name = ".." /\ left.marked = {}
  /\ right.selected = 0 /\ right.entries[1].name = ".." /\ right.marked = {}
  /\ last_call.op \in {"open_rename_dialog", "open_delete_dialog", "prepare_edit",
                       "start_upload", "start_download"}
  /\ rename_dialog = None /\ delete_dialog = None /\ pending_edit = None
  /\ upload_progress = 0 /\ download_progress = 0

\* The last handler was a do_connect whose change_to_absolute failed.
StartPathFailed ==
  /\ last_call.op = "do_connect"
  /\ \E i \in 1..Len(last_call.trace) :
       last_call.trace[i].call = "change_to_absolute" /\ ~last_call.trace[i].ok

\* C15: after a do_connect whose change_to_absolute failed, the session that
\* connect returned is the live session and stands in its home directory;
\* when the fallback listing succeeded the remote panel shows the listing of
\* the home directory, and the failure is reported by the status message.
C15_FallsBackToHome ==
  StartPathFailed =>
    /\ LiveSid = last_call.trace[1].sid
    /\ LiveSid # 0
    /\ Unwrap(sftp).remote_path = Unwrap(sftp).home
    /\ LoadedRemote =>
         /\ right.path = Unwrap(sftp).home
         /\ right.entries = list_dir(Conn(LiveSid, Unwrap(sftp).home), rfs)
         /\ status_message.tag = "Start-Verzeichnis nicht erreichbar"

\* The last handler was a do_connect that connected with the local start
\* path start and could read the directory it took for it.
LocalStartTaken(start) ==
  /\ last_call.op = "do_connect"
  /\ Len(last_call.arg) = 2
  /\ last_call.arg[2] = start
  /\ last_call.trace[1].ok
  /\ \A i \in 1..Len(last_call.trace) :
       last_call.trace[i].call = "load_local" => last_call.trace[i].ok

\* C17: with HOME set, a local start path "~" puts the left panel on the
\* process home directory, and "~/A" on the directory A of the home
\* directory, whatever the working directory of the process is.
C17_LocalTilde ==
  env.home # None =>
    /\ LocalStartTaken(<<"~">>) =>
         /\ left.path = Unwrap(env.home)
         /\ left.entries = load_local(NewPanel(Unwrap(env.home)), lfs, TRUE).entries
    /\ LocalStartTaken(<<"~", "/", "A">>) =>
         /\ left.path = Join(Unwrap(env.home), "A")
         /\ left.entries = load_local(NewPanel(Join(Unwrap(env.home), "A")), lfs, TRUE).entries

\* The last handler called change_to_absolute with the string raw on the
\* live session, and the call returned the listing.
ChangedTo(raw) ==
  /\ last_call.op = "change_to_absolute"
  /\ Len(last_call.arg) = 2
  /\ last_call.arg[1] = raw
  /\ last_call.trace[1].ok
\* The last handler was a do_connect with the remote start path raw whose
\* change_to_absolute returned the listing.
StartedAt(raw) ==
  /\ last_call.op = "do_connect"
  /\ Len(last_call.arg) = 2
  /\ last_call.arg[1] = raw
  /\ \E i \in 1..Len(last_call.trace) :
       last_call.trace[i].call = "change_to_absolute" /\ last_call.trace[i].ok

\* C18: a remote path "~" leads to the home path captured at connect, and
\* "~/A" to that home path followed by "/A", wherever the connection stood
\* when change_to_absolute was called; the remote panel then lists that
\* directory.  The captured home is the login directory.
C18_RemoteTilde ==
  /\ sftp # None =>
       /\ Unwrap(sftp).home = RemoteHome
       /\ ExpandRemote(Unwrap(sftp), <<"~">>) = PathStr(Unwrap(sftp).home)
       /\ ExpandRemote(Unwrap(sftp), <<"~", "/", "A">>)
            = PathStr(Unwrap(sftp).home) \o <<"/", "A">>
  /\ (ChangedTo(<<"~">>) \/ StartedAt(<<"~">>)) =>
       /\ Unwrap(sftp).remote_path = Unwrap(sftp).home
       /\ right.path = Unwrap(sftp).home
  /\ (ChangedTo(<<"~", "/", "A">>) \/ StartedAt(<<"~", "/", "A">>)) =>
       /\ Unwrap(sftp).remote_path = Join(Unwrap(sftp).home, "A")
       /\ right.path = Join(Unwrap(sftp).home, "A")

\* C18, its case: change_to_absolute was given "~/A" while the connection
\* stood in the root directory, and it stands in A of the home directory now.
C18_Witness ==
  /\ ChangedTo(<<"~", "/", "A">>)
  /\ last_call.arg[2] = PathStr(Root)
  /\ Unwrap(sftp).remote_path = Join(RemoteHome, "A")

\* ------------------------------------------------------------- the listings
\* The names a listed directory may hold, and what each of them is there.
ListedNames == {"A", "B", "a.txt", "b.txt"}
Kinds == {"none", "dir", "file"}
\* The tree whose home directory holds the names of ListedNames as kind says.
ListedTree(kind) ==
  [q \in {Root, LocalHome} \cup {Join(LocalHome, n) : n \in {m \in ListedNames : kind[m] # "none"}} |->
     IF Len(q) = 2 /\ kind[FileName(q)] = "file" THEN FileNode(<<>>) ELSE DirNode]

\* App::new on a local tree whose home directory holds any of these names,
\* each as a directory or as a file; the server holds the same tree.
InitListing ==
  /\ env = HomeEnv
  /\ running = TRUE
  /\ status_message = NoMessage
  /\ sftp = None
  /\ active = "Left"
  /\ upload_progress = 0
  /\ download_progress = 0
  /\ delete_dialog = None
  /\ rename_dialog = None
  /\ mkdir_dialog = None
  /\ password_dialog = None
  /\ shell_dialog = None
  /\ profile_dialog = None
  /\ pending_edit = None
  /\ progress = [h \in Handles |-> NoProgress]
  /\ worker = [h \in Handles |-> NoWorker]
  /\ last_call = Call("new", <<>>)
  /\ \E kind \in [ListedNames -> Kinds] :
       /\ lfs = ListedTree(kind)
       /\ rfs = ListedTree(kind)
  /\ left = load_local(NewPanel(Cwd), lfs, TRUE)
  /\ right = NewPanel(Cwd)

\* What lists a directory without changing a tree: connect, which lists the
\* remote home directory, and Enter and Backspace on the local panel.
NextListing ==
  \/ DoConnect
  \/ KeyF3
  \/ KeyUpDown
  \/ KeyEnter
  \/ KeyBackspace

SpecListing == InitListing /\ [][NextListing]_vars

\* The names of the trees in the order of their bytes: upper case letters
\* come before lower case letters.
NamesInOrder == <<"A", "B", "a.txt", "b.txt", "tmp", "u", "x">>
Rank(n) == CHOOSE i \in 1..Len(NamesInOrder) : NamesInOrder[i] = n

\* The listing es is ordered: ".." only in the first place, no file before a
\* directory, and directories and files each in case-sensitive order of name.
Ordered(es) ==
  /\ \A i \in 1..Len(es) : es[i].name = ".." => i = 1
  /\ \A i, j \in 1..Len(es) :
       (i < j /\ es[i].name # "..") =>
         /\ es[j].is_dir => es[i].is_dir
         /\ es[i].is_dir = es[j].is_dir => Rank(es[i].name) < Rank(es[j].name)

\* C14: every listing of a local load or a remote list is ordered: ".."
\* first when present, then all directories, then all files, each group in
\* case-sensitive lexicographic order of name; the entries b.txt, A (a
\* directory) and a.txt are listed as "..", A, a.txt, b.txt.
C14_ListingOrdered ==
  /\ Ordered(left.entries)
  /\ Ordered(right.entries)
  /\ \A p \in {left, right} :
       {p.entries[i] : i \in 1..Len(p.entries)}
           = {DotDot, FileEntry("b.txt", FALSE), FileEntry("A", TRUE), FileEntry("a.txt", FALSE)}
         => p.entries = <<DotDot, FileEntry("A", TRUE), FileEntry("a.txt", FALSE),
                          FileEntry("b.txt", FALSE)>>

\* C14, its case: the remote directory holds the directories b.txt and A and
\* the files B and a.txt, and the remote panel lists them in this order.
C14_Witness ==
  right.entries = <<DotDot, FileEntry("A", TRUE), FileEntry("b.txt", TRUE),
                    FileEntry("B", FALSE), FileEntry("a.txt", FALSE)>>

\* ------------------------------------------------- recursive remote delete
\* Remote trees with a directory A that holds a file and a directory B:
\* B empty, B holding a file, B holding a directory with a file.
DeepRemoteTree(depth) ==
  LET A  == Join(RemoteHome, "A")
      B  == Join(A, "B")
      BA == Join(B, "A")
      dirs  == {Root, RemoteHome, A, B} \cup (IF depth >= 2 THEN {BA} ELSE {})
      files == {Join(A, "x"), Join(RemoteHome, "b.txt")}
                 \cup (IF depth >= 1 THEN {Join(B, "x")} ELSE {})
                 \cup (IF depth >= 2 THEN {Join(BA, "x")} ELSE {})
  IN  [q \in dirs \cup files |-> IF q \in dirs THEN DirNode ELSE FileNode(<<>>)]

\* A connected App whose remote panel is active and lists the home directory
\* of one of the deep trees.
InitRmdir ==
  /\ env = HomeEnv
  /\ running = TRUE
  /\ status_message = Msg("Verbunden")
  /\ sftp = Some(Conn(1, RemoteHome))
  /\ active = "Right"
  /\ upload_progress = 0
  /\ download_progress = 0
  /\ delete_dialog = None
  /\ rename_dialog = None
  /\ mkdir_dialog = None
  /\ password_dialog = None
  /\ shell_dialog = None
  /\ profile_dialog = None
  /\ pending_edit = None
  /\ progress = [h \in Handles |-> NoProgress]
  /\ worker = [h \in Handles |-> NoWorker]
  /\ last_call = Call("do_connect", <<Ev("connect", "", 1, TRUE)>>)
  /\ lfs = TinyLocalTree
  /\ rfs \in {DeepRemoteTree(d) : d \in 0..2}
  /\ left = load_local(NewPanel(Cwd), lfs, TRUE)
  /\ right = load_remote(NewPanel(Cwd), RemoteHome, list_dir(Conn(1, RemoteHome), rfs))

NextRmdir ==
  \/ KeyUpDown
  \/ KeySpace
  \/ KeyEnter
  \/ KeyBackspace
  \/ KeyF8
  \/ DeleteKeyEnter
  \/ DeleteKeyEsc

SpecRmdir == InitRmdir /\ [][NextRmdir]_vars

\* The paths strictly below p.
Below(fs, p) ==
  {q \in DOMAIN fs : Len(q) > Len(p) /\ SubSeq(q, 1, Len(p)) = p}

\* The position of path q in the log of removals, 0 when it is not there.
LogPos(log, q) ==
  IF \E i \in 1..Len(log) : log[i] = q
  THEN CHOOSE i \in 1..Len(log) : log[i] = q
  ELSE 0

IsPrefix(s, t) == Len(s) <= Len(t) /\ SubSeq(t, 1, Len(s)) = s

\* What one walk r of rmdir_recursive(fs, p) leaves behind.
WalkSound(fs, p, r) ==
  LET gone == {q \in DOMAIN fs : q \notin DOMAIN r.fs} IN
  \* the tree changes by the removals of the log and by nothing else, and no
  \* removal is undone
  /\ DOMAIN r.fs \subseteq DOMAIN fs
  /\ \A q \in DOMAIN r.fs : r.fs[q] = fs[q]
  /\ gone = {r.log[i] : i \in 1..Len(r.log)}
  /\ \A i, j \in 1..Len(r.log) : r.log[i] = r.log[j] => i = j
  /\ gone \subseteq Below(fs, p) \cup {p}
  \* a directory goes only after everything below it has gone
  /\ \A i \in 1..Len(r.log) :
       \A q \in Below(fs, r.log[i]) : LogPos(r.log, q) \in 1..(i - 1)
  \* Ok: the requested directory has gone, with everything below it
  /\ r.ok => p \in gone
  \* Err: the walk stopped where a successful walk would have gone on; the
  \* requested directory and every directory that still has a child remain
  /\ ~r.ok =>
       /\ p \notin gone
       /\ \A q \in Below(fs, p) : q \notin gone => Parent(q) \notin gone
       /\ \E s \in rmdir_recursive(fs, p) :
            s.ok /\ IsPrefix(r.log, s.log) /\ r.log # s.log

\* C29: recursive remote delete removes a directory only after each of its
\* children has been removed; the first failure aborts the walk with Err, the
\* directory where it failed and all its ancestors up to the requested one
\* stay, and what was removed before the failure stays removed.
C29_ChildrenFirstAbort ==
  \A p \in DOMAIN rfs :
    IsDir(rfs, p) /\ Len(p) >= 2 =>
      \A r \in rmdir_recursive(rfs, p) : WalkSound(rfs, p, r)

\* A confirmed delete of the remote directory A failed after it had removed
\* A/x: A and A/B are still there, A/x is not.
C29_Witness ==
  LET A == Join(RemoteHome, "A") IN
  /\ last_call.op = "confirm_delete"
  /\ Len(last_call.trace) = 2
  /\ last_call.trace[1] = Ev("delete_dir", "A", 1, FALSE)
  /\ ~Exists(rfs, Join(A, "x"))
  /\ IsDir(rfs, A)
  /\ IsDir(rfs, Join(A, "B"))
  /\ Exists(rfs, Join(Join(A, "B"), "x"))

\* Within one directory d of the walk, every file directly in d is unlinked
\* before anything below a subdirectory of d is removed.
FilesBeforeDirs(fs, r) ==
  \A i, j \in 1..Len(r.log) :
    LET f == r.log[i]
        q == r.log[j]
    IN  (/\ ~fs[f].is_dir
         /\ Len(q) > Len(f)
         /\ SubSeq(q, 1, Len(f) - 1) = Parent(f))
        => i < j

\* C30: in recursive remote delete the files directly in a directory are
\* unlinked before the walk recurses into any of its subdirectories.
C30_FilesBeforeDirs ==
  \A p \in DOMAIN rfs :
    IsDir(rfs, p) /\ Len(p) >= 2 =>
      \A r \in rmdir_recursive(rfs, p) : FilesBeforeDirs(rfs, r)

\* ------------------------------------------------------------ claim C26
\* A step of poll_upload / poll_download that did something: the handle it
\* looked at, or 0.
UploadPolled ==
  IF upload_progress # 0
       /\ (upload_progress' = 0 \/ (last_call'.op = "poll_upload" /\ last_call' # last_call))
  THEN upload_progress ELSE 0
DownloadPolled ==
  IF download_progress # 0
       /\ (download_progress' = 0 \/ (last_call'.op = "poll_download" /\ last_call' # last_call))
  THEN download_progress ELSE 0

C26_UploadPoll ==
  UploadPolled # 0 =>
    LET h == UploadPolled
        state == progress[h].state
    IN  /\ state # Running
        /\ upload_progress' = 0
        /\ progress'[h] = NoProgress
        /\ last_call'.op = "poll_upload"
        /\ UNCHANGED <<left, sftp, lfs, rfs, download_progress>>
        /\ IF state = Done
           THEN IF sftp # None
                THEN LET conn == Unwrap(sftp) IN
                     \E ok \in BOOLEAN :
                       /\ last_call'.trace = <<Ev("list_dir", "", conn.sid, ok)>>
                       /\ IF ok
                          THEN /\ right' = load_remote(right, conn.remote_path,
                                                       list_dir(conn, rfs))
                               /\ status_message' = Msg("Upload abgeschlossen")
                          ELSE right' = right
                ELSE /\ last_call'.trace = <<>>
                     /\ right' = right
                     /\ status_message' = Msg("Upload abgeschlossen")
           ELSE /\ last_call'.trace = <<>>
                /\ right' = right
                /\ status_message' = StatusLine("Upload fehlgeschlagen", 0, 0, state[2])

C26_DownloadPoll ==
  DownloadPolled # 0 =>
    LET h == DownloadPolled
        state == progress[h].state
    IN  /\ state # Running
        /\ download_progress' = 0
        /\ progress'[h] = NoProgress
        /\ last_call'.op = "poll_download"
        /\ UNCHANGED <<right, sftp, lfs, rfs, upload_progress>>
        /\ IF state = Done
           THEN \E ok \in BOOLEAN :
                  /\ last_call'.trace = <<Ev("load_local", "", 0, ok)>>
                  /\ left' = load_local(left, lfs, ok)
                  /\ ok => status_message' = Msg("Download abgeschlossen")
           ELSE /\ last_call'.trace = <<>>
                /\ left' = left
                /\ status_message' = StatusLine("Download fehlgeschlagen", 0, 0, state[2])

\* While the state is Running no step of the foreground drops the handle or
\* touches the record.
C26_RunningUntouched ==
  /\ \A h \in Handles :
       (progress[h].state = Running /\ h \in {upload_progress, download_progress}) =>
          /\ h = upload_progress => upload_progress' = h
          /\ h = download_progress => download_progress' = h
          /\ progress'[h].state # NoProgress.state
  /\ (last_call'.op \in {"poll_upload", "poll_download"} /\ last_call' # last_call) =>
        UploadPolled # 0 \/ DownloadPolled # 0

\* C26: the poll that sees a terminal state clears the handle in that same
\* poll; on Done it re-lists the destination side (the remote panel after an
\* upload when a session is live, the local panel after a download), on
\* Failed it re-lists nothing and reports the failure; on Running it changes
\* nothing.
C26_PollOnTerminal ==
  [][C26_UploadPoll /\ C26_DownloadPoll /\ C26_RunningUntouched]_vars

\* A poll has just re-listed the remote panel after an upload that ended Done:
\* the marks the panel had are gone.
C26_Witness ==
  /\ last_call = Call("poll_upload", <<Ev("list_dir", "", 1, TRUE)>>)
  /\ upload_progress = 0
  /\ status_message = Msg("Upload abgeschlossen")
  /\ right.marked = {}
  /\ \A h \in Handles : progress[h] = NoProgress

\* ------------------------------------------------------------ claim C27
\* The thread of handle h runs download_batch and its record is live before
\* and after the step.
DownloadLive(h) ==
  /\ worker[h].kind = "down"
  /\ worker'[h].kind = "down"
  /\ progress[h].state # NoProgress.state
  /\ progress'[h].state # NoProgress.state

\* The file fields of the record are as TransferProgress::new left them.
NoFileYet(h) ==
  /\ progress[h].current_file = ""
  /\ progress[h].bytes_done = 0
  /\ progress[h].bytes_total = 0
  /\ progress[h].files_done = 0
  /\ worker[h].tried = <<>>

C27_CountStep ==
  \A h \in Handles :
    DownloadLive(h) =>
      \* the session is followed by the count, the count by the loop
      /\ (worker[h].pc = "connect" /\ worker'[h].pc # "connect")
           => worker'[h].pc \in {"count", "final"}
      /\ (worker[h].pc = "count" /\ worker'[h].pc # "count")
           => /\ worker'[h].pc = "loop"
              /\ NoFileYet(h)
              /\ progress'[h].files_total >= 1
              /\ progress'[h].files_total
                   <= Max(TotalSftp(rfs, worker[h].todo, {}), 1)
              /\ progress'[h].files_total
                   \in {Max(TotalSftp(rfs, worker[h].todo, bad), 1) :
                          bad \in SUBSET (DOMAIN rfs)}
              /\ progress'[h].current_file = progress[h].current_file
              /\ progress'[h].bytes_done = progress[h].bytes_done
              /\ progress'[h].files_done = progress[h].files_done
      \* files_total is written by the count and by nothing else
      /\ progress'[h].files_total # progress[h].files_total
           => worker[h].pc = "count"
      \* no file field changes before the count has been written
      /\ (\/ progress'[h].current_file # progress[h].current_file
          \/ progress'[h].bytes_done # progress[h].bytes_done
          \/ progress'[h].bytes_total # progress[h].bytes_total
          \/ progress'[h].files_done # progress[h].files_done
          \/ worker'[h].tried # worker[h].tried)
           => worker[h].pc \notin {"connect", "count"}

\* Until the count is written the record is the one start_download created.
C27_BeforeCount ==
  \A h \in Handles :
    (worker[h].kind = "down" /\ worker[h].pc \in {"connect", "count"}
       /\ progress[h].state # NoProgress.state)
      => progress[h] = NewProgress(1)

Tops(todo) == SelectSeq(todo, LAMBDA it : it.top)

\* The listing indices a batch over panel p takes: the marked ones that are
\* in the listing and are not "..", else the highlighted one.
Taken(p) ==
  LET ok(i) == i >= 0 /\ i < Len(p.entries) /\ p.entries[i + 1].name # ".."
  IN  IF p.marked = {}
      THEN {i \in {p.selected} : ok(i)}
      ELSE {i \in p.marked : ok(i)}

\* todo holds the taken entries of p in ascending listing index.
InListingOrder(todo, p) ==
  /\ Len(todo) = Cardinality(Taken(p))
  /\ \A i \in Taken(p) :
       LET k == Cardinality({j \in Taken(p) : j < i}) + 1
       IN  /\ todo[k].src = Join(p.path, p.entries[i + 1].name)
           /\ todo[k].top

C28_Step ==
  \A h \in Handles :
    \* the thread is spawned with the entries in ascending listing index
    /\ (worker[h].pc = "none" /\ worker'[h].pc # "none")
         => /\ worker'[h].pc = "connect"
            /\ InListingOrder(worker'[h].todo,
                              IF worker'[h].kind = "up" THEN left ELSE right)
    \* the thread takes them from the front, one at a time, and only when
    \* everything below the entries before it has been dealt with
    /\ (worker[h].pc \notin {"none", "exit"} /\ worker'[h].pc # "none")
         => \/ Tops(worker'[h].todo) = Tops(worker[h].todo)
            \/ /\ Tops(worker[h].todo) # <<>>
               /\ Tops(worker'[h].todo) = Tail(Tops(worker[h].todo))
               /\ worker[h].pc = "loop"
               /\ Head(worker[h].todo).top
               /\ worker'[h].cur = Head(Tops(worker[h].todo)).src
               /\ worker'[h].pc \in {"dir", "file"}

\* What is pending below the entry in hand comes before the entries that
\* are still to be taken.
C28_Stack ==
  \A h \in Handles :
    \A i, j \in 1..Len(worker[h].todo) :
      (i < j /\ worker[h].todo[i].top) => worker[h].todo[j].top

\* C28: the entries of a batch are processed in the order start_upload and
\* start_download hand them over, ascending listing index of the marked
\* entries; the thread never reorders them and takes entry i only after the
\* entries before it have completed.
C28_CallerOrder == []C28_Stack /\ [][C28_Step]_vars

\* An upload of A, a.txt and b.txt has completed A/x and has a.txt in hand,
\* b.txt still to come.
C28_Witness ==
  \E h \in Handles :
    /\ worker[h].kind = "up"
    /\ worker[h].done = <<Join(Join(LocalHome, "A"), "x")>>
    /\ worker[h].cur = Join(LocalHome, "a.txt")
    /\ worker[h].pc = "file"
    /\ Len(worker[h].todo) = 1
    /\ worker[h].todo[1].src = Join(LocalHome, "b.txt")

\* ------------------------------------------------------------ claim C24
\* Handle h has a record (the Arc<Mutex<TransferProgress>> exists).
Live(pr) == pr.state # NoProgress.state

\* Everything the foreground loop owns.
foreground == <<running, status_message, sftp, left, right, active,
                upload_progress, download_progress, delete_dialog,
                pending_edit, lfs, rfs, last_call, rename_dialog,
                mkdir_dialog, shell_dialog, profile_dialog, env, password_dialog>>

C24_Step ==
  \A h \in Handles :
    \* a change of a live record is one step of the thread of that batch, and
    \* of nothing else: no other record and no foreground field moves with it
    /\ (Live(progress[h]) /\ Live(progress'[h]) /\ progress'[h] # progress[h])
         => /\ worker[h].kind \in {"up", "down"}
            /\ worker[h].pc \notin {"none", "exit"}
            /\ worker'[h] # worker[h]
            /\ \A g \in Handles \ {h} :
                 progress'[g] = progress[g] /\ worker'[g] = worker[g]
            /\ UNCHANGED foreground
    \* the record is created by start_upload / start_download, with its thread
    /\ (~Live(progress[h]) /\ Live(progress'[h]))
         => /\ last_call'.op \in {"start_upload", "start_download"}
            /\ worker[h].pc = "none" /\ worker'[h].pc = "connect"
            /\ h \in {upload_progress', download_progress'}
            /\ progress'[h].state = Running
    \* and dropped by the poll that saw its terminal state
    /\ (Live(progress[h]) /\ ~Live(progress'[h]))
         => /\ last_call'.op \in {"poll_upload", "poll_download"}
            /\ IsTerminal(progress[h].state)
            /\ h \in {upload_progress, download_progress}
            /\ h \notin {upload_progress', download_progress'}

\* A record belongs to exactly one handle of the App and to one thread.
C24_OneWriter ==
  \A h \in Handles :
    Live(progress[h]) =>
      /\ h \in {upload_progress, download_progress}
      /\ worker[h].kind = (IF h = upload_progress THEN "up" ELSE "down")

\* C24: the progress record is written only by the transfer thread of its
\* batch; between the creation of the handle and its removal the foreground
\* (poll_upload, poll_download, rendering) only reads it, and every write is
\* one atomic step on one record.
C24_SoleWriter == []C24_OneWriter /\ [][C24_Step]_vars

\* A record its thread has written several times (two files done, the state
\* Done) and the foreground has not yet polled.
C24_Witness ==
  \E h \in Handles :
    /\ upload_progress = h
    /\ progress[h].state = Done
    /\ progress[h].files_done >= 2
    /\ worker[h].pc = "exit"
    /\ last_call.op = "start_upload"

\* ------------------------------------------------------------ claim C25
\* The transfer engine with the quit key, under a scheduler that lets every
\* thread that can take a step take one: each call a thread makes returns.
NextBatch ==
  \/ DoConnect
  \/ KeyF3
  \/ KeyF5
  \/ KeyF6
  \/ Quit
  \/ poll_upload
  \/ poll_download
  \/ \E h \in Handles : WorkerStep(h)

SpecBatch ==
  /\ InitTransfer
  /\ [][NextBatch]_vars
  /\ \A h \in Handles : WF_vars(WorkerStep(h))

\* The thread of handle h has been spawned and has not returned.
InBatch(h) == worker[h].pc \notin {"none", "exit"}

\* The thread of handle h has written Done or Failed and returned.
Ended(h) == worker[h].pc = "exit" /\ IsTerminal(progress[h].state)

\* Every spawned batch reaches Done or Failed.
C25_AlwaysTerminal ==
  \A h \in Handles : InBatch(h) ~> Ended(h)

\* Nothing but the thread itself moves a batch that is under way: no key and
\* no poll cancels, restarts or removes it.
C25_NoCancel ==
  \A h \in Handles :
    (InBatch(h) /\ worker'[h] # worker[h]) =>
      /\ worker'[h].kind = worker[h].kind
      /\ worker'[h].pc # "none"
      /\ Live(progress'[h])
      /\ UNCHANGED foreground

\* C25: every spawned batch over a finite tree reaches Done or Failed, given
\* that each call of its thread returns, unless the process exits first; no
\* step cancels it on the way.
C25_TerminalOrExit ==
  /\ \A h \in Handles : InBatch(h) ~> (Ended(h) \/ ~running)
  /\ [][C25_NoCancel]_vars

\* A batch that walked a directory and two files and ended Done, while the
\* process is still running.
C25_Witness ==
  \E h \in Handles :
    /\ running
    /\ worker[h].pc = "exit"
    /\ Len(worker[h].done) >= 2
    /\ progress[h].state = Done

\* ------------------------------------------------------ claims C21, C23
\* The files below the entries a batch was given, in the tree it reads.
FilesUnder(fs, roots) ==
  {q \in DOMAIN fs :
     /\ ~fs[q].is_dir
     /\ \E i \in 1..Len(roots) :
          Len(q) >= Len(roots[i]) /\ SubSeq(q, 1, Len(roots[i])) = roots[i]}

\* The files a thread has transferred completely.
DoneFiles(h) == {worker[h].done[i] : i \in 1..Len(worker[h].done)}

\* The step of upload_dir_recursive in which mkdir is answered "already
\* exists" goes on to read the local directory; it ends the batch only when
\* that read fails, and then with the error of the read, not of the mkdir.
C21_ExistsIsOk_Step ==
  \A h \in Handles :
    (/\ worker[h].kind = "up"
     /\ worker[h].pc = "dir"
     /\ worker'[h].pc # "dir"
     /\ worker'[h].existed /\ ~worker[h].existed)
      => \/ /\ worker'[h].pc = "loop"
            /\ progress'[h].state = Running
            /\ Len(worker'[h].todo) >= Len(worker[h].todo)
            /\ LET n == Len(worker'[h].todo) - Len(worker[h].todo) IN
               /\ SubSeq(worker'[h].todo, n + 1, Len(worker'[h].todo)) = worker[h].todo
               /\ \A i \in 1..n :
                    /\ worker'[h].todo[i].src \in ChildPaths(lfs, worker[h].cur)
                    /\ worker'[h].todo[i].dst
                         = Join(worker[h].dst, FileName(worker[h].cur))
               /\ ~worker'[h].skipped =>
                    {worker'[h].todo[i].src : i \in 1..n} = ChildPaths(lfs, worker[h].cur)
         \/ /\ worker'[h].pc = "final"
            /\ worker'[h].result = "tcp"

\* An upload that met an existing remote directory and no error ends Done,
\* with every file below its entries uploaded.
C21_AllUploaded ==
  \A h \in Handles :
    (/\ worker[h].kind = "up"
     /\ worker[h].pc = "exit"
     /\ worker[h].existed
     /\ worker[h].result = "ok"
     /\ ~worker[h].skipped
     /\ Live(progress[h]))
      => /\ progress[h].state = Done
         /\ FilesUnder(lfs, worker[h].roots) \subseteq DoneFiles(h)
         /\ progress[h].files_done = Cardinality(FilesUnder(lfs, worker[h].roots))

C23_ConnectFails_Step ==
  \A h \in Handles :
    (worker[h].pc = "connect" /\ worker'[h].pc # "connect") =>
      \/ /\ worker'[h].pc \in {"count", "loop"}
         /\ worker'[h].sid # 0
      \/ /\ worker'[h].pc = "final"
         /\ worker'[h].result \in {"tcp", "auth"}
         /\ worker'[h].sid = 0
         /\ worker'[h].todo = worker[h].todo
         /\ worker'[h].tried = <<>>
         /\ progress'[h] = progress[h]
         /\ progress[h].files_done = 0

\* The state a thread leaves: Failed with its error, else Done; after an
\* authentication error nothing was attempted.
C23_FinalState ==
  \A h \in Handles :
    (worker[h].pc = "exit" /\ Live(progress[h])) =>
      /\ progress[h].state = (IF worker[h].result = "ok" THEN Done
                              ELSE Failed(worker[h].result))
      /\ worker[h].result = "auth" =>
           worker[h].tried = <<>> /\ progress[h].files_done = 0

\* Done: every file below every requested entry has been transferred.
C23_DoneMeansAll ==
  \A h \in Handles :
    (worker[h].pc = "exit" /\ Live(progress[h]) /\ progress[h].state = Done) =>
      /\ worker[h].result = "ok"
      /\ FilesUnder(Src(h), worker[h].roots) \subseteq DoneFiles(h)

\* C23: a batch ends Done only if its session was opened and authenticated
\* and every file under every requested entry was transferred without error;
\* a connect or authentication error yields Failed with no entry attempted
\* and files_done still 0.
C23_DoneOnlyIfAll ==
  /\ [](C23_FinalState /\ C23_DoneMeansAll)
  /\ [][C23_ConnectFails_Step]_vars

\* ------------------------------------------------------ the password dialog
\* The longest password typed.
MaxInput == 2

\* App::begin_connect: a profile with password authentication opens the
\* password dialog, a profile with key authentication connects at once.
begin_connect(profile, auth) ==
  IF auth = "Password"
  THEN /\ password_dialog' = Some(PasswordDialog(profile))
       /\ last_call' = Call("begin_connect", <<>>)
       /\ UNCHANGED <<running, rename_dialog, mkdir_dialog, shell_dialog, env,
                      status_message, sftp, left, right, active, upload_progress,
                      download_progress, delete_dialog, pending_edit, progress,
                      worker, lfs, rfs>>
  ELSE do_connect(profile)

\* The profiles with password authentication.
PasswordProfiles ==
  {Profile(None, None), Profile(Some(<<"~", "/", "A">>), Some(<<"~">>))}

\* handle_list_key, Enter on a profile with password authentication.
PasswordProfile ==
  /\ MainContext
  /\ \E profile \in PasswordProfiles : begin_connect(profile, "Password")
  /\ profile_dialog' = None

\* handle_events with the password dialog open.
PasswordContext == running /\ pending_edit = None /\ password_dialog # None

\* handle_password_key, Esc
PasswordKeyEsc ==
  /\ PasswordContext
  /\ password_dialog' = None
  /\ status_message' = Msg("Verbindung abgebrochen")
  /\ last_call' = Call("Esc", <<>>)
  /\ UNCHANGED <<running, rename_dialog, mkdir_dialog, shell_dialog, profile_dialog, env, sftp, left, right, active,
                 upload_progress, download_progress, delete_dialog, pending_edit,
                 progress, worker, lfs, rfs>>

\* handle_password_key, Enter: the dialog is taken out, put back, and
\* do_connect runs with its profile and the password typed.
PasswordKeyEnter ==
  /\ PasswordContext
  /\ do_connect(Unwrap(password_dialog).profile)
  /\ profile_dialog' = profile_dialog

\* handle_password_key, a character or Backspace: the input grows or shrinks
\* and the error is cleared.
PasswordKeyChar ==
  /\ PasswordContext
  /\ \E push \in BOOLEAN :
       LET dlg == Unwrap(password_dialog)
           input == IF push THEN Append(dlg.input, "c")
                    ELSE SubSeq(dlg.input, 1, SatSub(Len(dlg.input), 1))
       IN  /\ Len(input) <= MaxInput
           /\ password_dialog' = Some([dlg EXCEPT !.input = input, !.error = None])
  /\ last_call' = Call("Char", <<>>)
  /\ UNCHANGED <<running, rename_dialog, mkdir_dialog, shell_dialog, profile_dialog, env, status_message, sftp, left,
                 right, active, upload_progress, download_progress, delete_dialog,
                 pending_edit, progress, worker, lfs, rfs>>

\* App::new in the home directory.
InitPassword ==
  /\ AppNew
  /\ lfs = SmallLocalTree
  /\ rfs = TinyRemoteTree
  /\ left = load_local(NewPanel(dirs_or_cwd), lfs, TRUE)
  /\ right = NewPanel(dirs_or_cwd)

\* Connecting with key and with password profiles, and disconnecting.
NextPassword ==
  \/ DoConnect
  \/ KeyF3
  \/ PasswordProfile
  \/ PasswordKeyChar
  \/ PasswordKeyEnter
  \/ PasswordKeyEsc

SpecPassword == InitPassword /\ [][NextPassword]_vars

\* ------------------------------------------------------------ claim C22
\* The step is a do_connect whose SftpConnection::connect returned Err.
ConnectFailedStep ==
  /\ last_call'.op = "do_connect"
  /\ last_call'.trace = <<Ev("connect", "", 0, FALSE)>>

C22_Step ==
  ConnectFailedStep =>
    /\ sftp' = sftp
    /\ right' = right
    /\ left' = left
    /\ IF password_dialog # None
       THEN /\ password_dialog' # None
            /\ Unwrap(password_dialog').profile = Unwrap(password_dialog).profile
            /\ Unwrap(password_dialog').input = Unwrap(password_dialog).input
            /\ Unwrap(password_dialog').error = Some("Verbindung fehlgeschlagen")
            /\ status_message' = status_message
       ELSE /\ password_dialog' = None
            /\ status_message' = Msg("Verbindung fehlgeschlagen")

\* C22: a failed connect attempt installs or replaces no session and leaves
\* the remote panel as it is; an open password dialog stays open with its
\* profile and gets the failure in its error field, otherwise the failure
\* becomes the status message.
C22_FailedConnect == [][C22_Step]_vars

\* Connected on session 1, the password dialog of a new attempt is open with a
\* password typed, and the attempt has just failed: the session is still
\* there and the dialog shows the error.
C22_Witness ==
  /\ last_call = Call("do_connect", <<Ev("connect", "", 0, FALSE)>>)
  /\ sftp # None
  /\ Unwrap(sftp).sid = 1
  /\ password_dialog # None
  /\ Len(Unwrap(password_dialog).input) = 2
  /\ Unwrap(password_dialog).error # None
  /\ status_message = Msg("Verbunden")

\* ------------------------------------------------------------ claim C31
\* The step called change_to_absolute on the live connection; its event names
\* the call that decided the result (realpath, stat, is_dir or readdir).
ChangeStep == last_call'.op = "change_to_absolute"
\* The stages at which change_to_absolute returns before it assigns.
EarlyStages == {"realpath", "stat", "is_dir"}

C31_Step ==
  ChangeStep =>
    LET conn == Unwrap(sftp)
        after == Unwrap(sftp')
        ev == last_call'.trace[1]
        canonical == realpath(conn, ExpandRemote(conn, last_call'.arg[1]))
    IN  /\ sftp # None /\ sftp' # None
        /\ ev.name \in EarlyStages =>
             /\ ~ev.ok
             /\ after.remote_path = conn.remote_path
             /\ right' = right
        /\ ev.name \notin EarlyStages =>
             /\ ev.name = "readdir"
             /\ IsDir(rfs, canonical)
             /\ after.remote_path = canonical
        /\ ev.name = "is_dir" => IsFile(rfs, canonical)
        /\ ev.ok => right'.path = canonical

\* A connect with a remote start path: change_to_absolute runs on the fresh
\* connection, which stands in the home directory.
C31_StartStep ==
  (last_call'.op = "do_connect" /\ sftp' # None) =>
    \A i \in 1..Len(last_call'.trace) :
      LET ev == last_call'.trace[i] IN
      (ev.call = "change_to_absolute" /\ ev.name \in EarlyStages) =>
        ~ev.ok /\ Unwrap(sftp').remote_path = Unwrap(sftp').home

\* C31: change_to_absolute assigns remote_path only after realpath and stat
\* succeeded and the canonical path is a directory, and then to the canonical
\* path; when realpath fails, stat fails or the path is no directory it
\* returns an error and remote_path is what it was.
C31_ChangeOnlyToDirectory == [][C31_Step /\ C31_StartStep]_vars

\* change_to_absolute was called with the path of a file while the connection
\* stood in the root directory: it failed at the directory test and the
\* connection still stands in the root directory.
C31_Witness ==
  /\ last_call.op = "change_to_absolute"
  /\ last_call.trace[1].name = "is_dir"
  /\ ~last_call.trace[1].ok
  /\ last_call.arg[2] = PathStr(Root)
  /\ Unwrap(sftp).remote_path = Root

\* ------------------------------------------- every call on the live session
\* App::new in the home directory; the remote panel is the active one.
InitRemote ==
  /\ env = HomeEnv
  /\ running = TRUE
  /\ status_message = NoMessage
  /\ sftp = None
  /\ active = "Right"
  /\ upload_progress = 0
  /\ download_progress = 0
  /\ delete_dialog = None
  /\ rename_dialog = None
  /\ mkdir_dialog = None
  /\ password_dialog = None
  /\ shell_dialog = None
  /\ profile_dialog = None
  /\ pending_edit = None
  /\ progress = [h \in Handles |-> NoProgress]
  /\ worker = [h \in Handles |-> NoWorker]
  /\ last_call = Call("new", <<>>)
  /\ lfs = TinyLocalTree
  /\ rfs = TinyRemoteTree
  /\ left = load_local(NewPanel(dirs_or_cwd), lfs, TRUE)
  /\ right = NewPanel(dirs_or_cwd)

\* handle_list_key, Enter on a profile that names a remote start path or none.
ConnectRemote ==
  /\ MainContext
  /\ \E r \in RemoteStarts : do_connect(Profile(r, None))
  /\ profile_dialog' = None

\* Connecting with a profile and disconnecting, and every operation the App
\* performs on the live connection: listing, entering a directory, going up,
\* jumping to a path, renaming, creating and deleting.
NextRemote ==
  \/ ConnectRemote
  \/ KeyF3
  \/ KeyUpDown
  \/ KeyEnter
  \/ KeyBackspace
  \/ CallChangeToAbsolute
  \/ KeyF2
  \/ RenameKeyEnter
  \/ RenameKeyEsc
  \/ KeyF7
  \/ MkdirKeyEnter
  \/ MkdirKeyEsc
  \/ KeyF8
  \/ DeleteKeyEnter
  \/ DeleteKeyEsc

SpecRemote == InitRemote /\ [][NextRemote]_vars

\* ------------------------------------------------------------ claim C32
\* A step on the session that is live before and after it.
SameSession ==
  /\ sftp # None /\ sftp' # None
  /\ last_call'.op # "do_connect"

C32_Step ==
  /\ SameSession =>
       /\ Unwrap(sftp').sid = Unwrap(sftp).sid
       /\ Unwrap(sftp').home = Unwrap(sftp).home
  /\ (last_call'.op = "do_connect" /\ last_call'.trace[1].ok) =>
       /\ sftp' # None
       /\ Unwrap(sftp').home = RemoteHome

\* C32: the home path of a session is the login directory resolved by
\* connect, and no later call on that session (list_dir, enter_dir, go_up,
\* change_to_absolute, rename, mkdir, delete) changes it.
C32_HomeFixed ==
  /\ [](sftp # None => Unwrap(sftp).home = RemoteHome)
  /\ [][C32_Step]_vars

\* The connection has left the home directory for the root, and a directory
\* was created there: the home path is still the login directory.
C32_Witness ==
  /\ sftp # None
  /\ last_call.op = "confirm_mkdir"
  /\ Len(last_call.trace) = 2
  /\ last_call.trace[2].ok
  /\ Unwrap(sftp).remote_path = Root
  /\ Unwrap(sftp).home = RemoteHome

\* ------------------------------------------------------------ claim C33
\* The step called go_up or enter_dir on the live connection.
WentUp == last_call'.op = "remote_go_up" /\ last_call'.trace # <<>>
Entered == last_call'.op = "remote_enter_selected" /\ last_call'.trace # <<>>
\* The parent of a remote path, the root being its own.
ParentOrSelf(p) == IF p = Root THEN Root ELSE Parent(p)

C33_Step ==
  LET before == Unwrap(sftp).remote_path
      after == Unwrap(sftp').remote_path
      name == right.entries[right.selected + 1].name
  IN  /\ WentUp =>
           /\ after = ParentOrSelf(before)
           /\ last_call'.trace = <<Ev("list_dir", "", Unwrap(sftp).sid,
                                      last_call'.trace[1].ok)>>
      /\ Entered =>
           /\ after = IF name = ".." THEN ParentOrSelf(before) ELSE Join(before, name)
           /\ last_call'.trace = <<Ev("list_dir", "", Unwrap(sftp).sid,
                                      last_call'.trace[1].ok)>>
      /\ (WentUp \/ Entered) /\ last_call'.trace[1].ok =>
           /\ right'.path = after
           /\ right'.entries = list_dir(Unwrap(sftp'), rfs)

\* C33: go_up and enter_dir("..") at the root leave remote_path at the root
\* and list it again; anywhere else they move remote_path to its parent;
\* enter_dir with any other name moves it to remote_path joined with the name.
C33_MoveTargets == [][C33_Step]_vars

\* go_up was called while the connection stood at the root: it still stands
\* there and the root was listed again.
C33_Witness ==
  /\ last_call.op = "remote_go_up"
  /\ last_call.arg = <<Root>>
  /\ last_call.trace[1].ok
  /\ Unwrap(sftp).remote_path = Root
  /\ right.path = Root

\* enter_dir("..") was called while the connection stood at the root, from a
\* panel that still showed the listing of another directory.
C33_WitnessDotDot ==
  /\ last_call.op = "remote_enter_selected"
  /\ last_call.arg = <<Root>>
  /\ last_call.trace[1].ok
  /\ Unwrap(sftp).remote_path = Root

\* ------------------------------------------------------------ claim C37
\* C37: whenever a session is live, the remote panel shows the directory the
\* session stands in: right.path is the connection's remote_path.
C37_PanelFollowsSession ==
  sftp # None => right.path = Unwrap(sftp).remote_path

\* The same, for the steps whose listing succeeded: every connect, move,
\* jump, mutation and refresh that got a listing leaves the panel on the
\* connection's remote_path.
C37_ListedStep ==
  (/\ sftp' # None
   /\ last_call'.trace # <<>>
   /\ last_call'.trace[Len(last_call'.trace)].call \in {"list_dir", "change_to_absolute"}
   /\ last_call'.trace[Len(last_call'.trace)].ok)
    => right'.path = Unwrap(sftp').remote_path
C37_AfterListing == [][C37_ListedStep]_vars

\* ------------------------------------------------------------ claim C34
\* The listing es begins with "..", and holds ".." in no other place.
DotDotFirst(es) == es # <<>> /\ es[1] = DotDot
DotDotOnlyFirst(es) == \A i \in 2..Len(es) : es[i].name # ".."

\* The step ended with a remote listing that was loaded into the panel.
RemoteListed ==
  /\ sftp' # None
  /\ last_call'.trace # <<>>
  /\ last_call'.trace[Len(last_call'.trace)].call = "list_dir"
  /\ last_call'.trace[Len(last_call'.trace)].sid # 0
  /\ last_call'.trace[Len(last_call'.trace)].ok

C34_RemoteStep ==
  RemoteListed =>
    /\ right'.entries = list_dir(Unwrap(sftp'), rfs')
    /\ DotDotFirst(right'.entries) <=> Unwrap(sftp').remote_path # Root
    /\ DotDotOnlyFirst(right'.entries)

\* C34: a remote listing begins with ".." exactly when remote_path is not the
\* root, a local listing exactly when the panel's path has a parent, and
\* ".." stands in no other place of either listing.
C34_DotDotHead ==
  /\ [](/\ DotDotFirst(left.entries) <=> HasParent(left.path)
        /\ DotDotOnlyFirst(left.entries)
        /\ DotDotOnlyFirst(right.entries)
        /\ (sftp # None /\ IsDir(rfs, Unwrap(sftp).remote_path)) =>
             /\ DotDotFirst(list_dir(Unwrap(sftp), rfs)) <=> Unwrap(sftp).remote_path # Root
             /\ DotDotOnlyFirst(list_dir(Unwrap(sftp), rfs)))
  /\ [][C34_RemoteStep]_vars

\* The remote panel has just listed the root directory: the listing holds the
\* home directory and no "..".
C34_Witness ==
  /\ sftp # None
  /\ Unwrap(sftp).remote_path = Root
  /\ last_call.op = "remote_go_up"
  /\ last_call.trace[1].ok
  /\ right.path = Root
  /\ right.entries = <<FileEntry("u", TRUE)>>

\* The local panel lists the root directory: the home directory and no "..".
C34_WitnessLocalRoot ==
  /\ left.path = Root
  /\ left.entries = <<FileEntry("u", TRUE)>>

\* ------------------------------------------------------------ claim C35
\* The download thread h is between the stat of a file and the end of its
\* chunk loop.
Downloading(h) == worker[h].kind = "down" /\ worker[h].pc \in {"open", "chunks"}

\* While a file is downloaded bytes_total is the size taken from stat, 0 when
\* it is unknown.
C35_TotalStays_Step ==
  \A h \in Handles :
    (Downloading(h) /\ worker'[h].kind = "down" /\ worker'[h].pc \in {"open", "chunks"}) =>
      /\ progress'[h].bytes_total = progress[h].bytes_total
      /\ worker'[h].total = worker[h].total

\* C35: while a file whose remote size is unknown or zero is downloaded,
\* bytes_total is 0 and file_fraction is 0, whatever bytes_done has reached;
\* whenever bytes_total is above 0, bytes_done is at most bytes_total, and
\* file_fraction is within 0..1.
C35_IndeterminateFraction ==
  /\ [](\A h \in Handles :
          /\ Downloading(h) => progress[h].bytes_total = worker[h].total
          /\ (Downloading(h) /\ worker[h].total = 0) =>
               /\ progress[h].bytes_total = 0
               /\ file_fraction(progress[h]) = 0
          /\ progress[h].bytes_total > 0 =>
               /\ progress[h].bytes_done <= progress[h].bytes_total
               /\ file_fraction(progress[h])
                    = (progress[h].bytes_done * 1000) \div progress[h].bytes_total
          /\ progress[h].bytes_total = 0 => file_fraction(progress[h]) = 0)
  /\ [][C35_TotalStays_Step]_vars

\* Bytes of a file whose size stat did not tell have been written, and the
\* chunk loop is still running: bytes_done is above 0, bytes_total is 0.
C35_Witness ==
  \E h \in Handles :
    /\ Downloading(h)
    /\ worker[h].pc = "chunks"
    /\ worker[h].total = 0
    /\ progress[h].bytes_done > 0
    /\ progress[h].bytes_total = 0
    /\ progress[h].state = Running

\* ------------------------------------------------------------ claim C36
\* The transfer threads that exist, and the handles the App holds.
Batches == {h \in Handles : worker[h].kind # "none"}
Held == {upload_progress, download_progress} \ {0}

\* While a handle is present F5 and F6 are recorded as keys that called
\* nothing, and no step starts a thread or takes a new handle.
C36_Step ==
  is_transferring =>
    /\ \A h \in Handles : worker'[h].kind # "none" => worker[h].kind # "none"
    /\ upload_progress' \in {upload_progress, 0}
    /\ download_progress' \in {download_progress, 0}
    /\ (last_call' # last_call /\ last_call'.op \in {"F5", "F6", "start_upload", "start_download"}) =>
         /\ last_call' \in {Call("F5", <<>>), Call("F6", <<>>)}
         /\ UNCHANGED <<upload_progress, download_progress, worker, progress, left,
                        right, status_message, sftp>>

\* C36: with the keys as the only callers, at most one batch is in flight:
\* the upload handle and the download handle are never both present, at most
\* one transfer thread exists, F5 and F6 start nothing while either handle is
\* present, and the test start_download itself makes rejects the call while
\* any transfer is running.
C36_OneBatch ==
  /\ [](/\ ~(is_uploading /\ is_downloading)
        /\ Cardinality(Batches) <= 1
        /\ Batches = Held
        /\ is_transferring => DownloadRejected)
  /\ [][C36_Step]_vars

\* F6 was pressed while an upload was running: nothing was started.
C36_Witness ==
  /\ last_call = Call("F6", <<>>)
  /\ is_connected
  /\ is_uploading
  /\ ~is_downloading
  /\ progress[upload_progress].state = Running
  /\ worker[upload_progress].pc = "chunks"
  /\ BatchEntries(right) # <<>>

\* start_download called directly while any transfer is running changes
\* nothing.
C36_StartDownload_Step ==
  (is_transferring /\ last_call' # last_call /\ last_call'.op = "start_download") =>
    /\ last_call' = Call("start_download", <<>>)
    /\ UNCHANGED <<upload_progress, download_progress, worker, progress, left, right,
                   status_message, sftp>>
C36_StartDownloadRejected == [][C36_StartDownload_Step]_vars

\* ---------------------------------------------- batches of empty directories
\* Each home directory holds an empty directory A and a file of one chunk.
EmptyDirLocalTree ==
  [q \in {Root, LocalHome, Join(LocalHome, "A"), Join(LocalHome, "x")} |->
     IF q = Join(LocalHome, "x") THEN FileNode(<<<<"l", 10>>>>) ELSE DirNode]
EmptyDirRemoteTree ==
  [q \in {Root, RemoteHome, Join(RemoteHome, "A"), Join(RemoteHome, "b.txt")} |->
     IF q = Join(RemoteHome, "b.txt") THEN FileNode(<<<<"r", 10>>>>) ELSE DirNode]

\* A connected App on these trees, with any marks and the cursor anywhere.
InitEmptyDir ==
  /\ env = HomeEnv
  /\ running = TRUE
  /\ status_message = Msg("Verbunden")
  /\ sftp = Some(Conn(1, RemoteHome))
  /\ active = "Left"
  /\ upload_progress = 0
  /\ download_progress = 0
  /\ delete_dialog = None
  /\ rename_dialog = None
  /\ mkdir_dialog = None
  /\ password_dialog = None
  /\ shell_dialog = None
  /\ profile_dialog = None
  /\ pending_edit = None
  /\ progress = [h \in Handles |-> NoProgress]
  /\ worker = [h \in Handles |-> NoWorker]
  /\ last_call = Call("do_connect", <<Ev("connect", "", 1, TRUE)>>)
  /\ lfs = EmptyDirLocalTree
  /\ rfs = EmptyDirRemoteTree
  /\ left \in Marked(load_local(NewPanel(Cwd), lfs, TRUE))
  /\ right \in Marked(load_remote(NewPanel(Cwd), RemoteHome,
                                  list_dir(Conn(1, RemoteHome), rfs)))

SpecEmptyDir == InitEmptyDir /\ [][NextTransfer]_vars

\* ------------------------------------------------------------ claim C38
\* C38: a batch that has ended in Done has transferred as many files as it
\* announced: files_done = files_total, and overall_fraction is 1.
C38_DoneIsComplete ==
  \A h \in Handles :
    progress[h].state = Done =>
      /\ progress[h].files_done = progress[h].files_total
      /\ overall_fraction(progress[h]) = 1000


\* The batch of handle h was the one empty directory A, every listing was
\* complete, and the batch is Done with no file transferred of the one
\* announced.
EmptyDirDone(h) ==
  /\ progress[h].state = Done
  /\ Len(worker[h].roots) = 1
  /\ FileName(worker[h].roots[1]) = "A"
  /\ ~worker[h].skipped
  /\ progress[h].files_done = 0
  /\ progress[h].files_total = 1
  /\ overall_fraction(progress[h]) = 0
C38_EmptyUploadDone == \E h \in Handles : worker[h].kind = "up" /\ EmptyDirDone(h)
C38_EmptyDownloadDone == \E h \in Handles : worker[h].kind = "down" /\ EmptyDirDone(h)

\* What holds of every batch that ends in Done: files_done is the number of
\* files the thread has transferred, and overall_fraction is files_done over
\* files_total, cut off at 1.
C38_DoneCountsTransferred ==
  \A h \in Handles :
    progress[h].state = Done =>
      /\ progress[h].files_done = Len(worker[h].done)
      /\ progress[h].files_total >= 1
      /\ overall_fraction(progress[h])
           = Min((progress[h].files_done * 1000) \div progress[h].files_total, 1000)

\* ------------------------------------------------------------ claim C39
\* Every mark of panel p is an index into its entries (indices count from 0).
MarksValid(p) == \A i \in p.marked : i \in 0..(Len(p.entries) - 1)

\* C39: in every state, every index in the marked set of either panel is an
\* index into that panel's current entry list.
C39_MarksValid == MarksValid(left) /\ MarksValid(right)

\* The remote panel has moved from the home directory to the root, which
\* got a second child after the connect, and both children are marked.
C39_Witness ==
  /\ sftp # None
  /\ right.path = Root
  /\ Unwrap(sftp).remote_path = Root
  /\ right.entries = list_dir(Unwrap(sftp), rfs)
  /\ Len(right.entries) = 2
  /\ right.marked = {0, 1}

\* ------------------------------------------- the shell and profile dialogs
\* ShellDialog::new: the command typed so far, and whether the dialog shows
\* the output of a command that has run.
ShellDialog == [input |-> <<>>, output |-> FALSE]
\* ProfileDialog::new(store): the list of the store, which may be empty.
ProfileDialog(profiles) == [mode |-> "List", profiles |-> profiles]

\* handle_events with the shell dialog, and with the profile dialog, as the
\* open dialog of the highest priority.
ShellContext ==
  /\ running /\ pending_edit = None
  /\ password_dialog = None /\ delete_dialog = None /\ rename_dialog = None
  /\ mkdir_dialog = None /\ shell_dialog # None
ProfileContext ==
  /\ running /\ pending_edit = None
  /\ password_dialog = None /\ delete_dialog = None /\ rename_dialog = None
  /\ mkdir_dialog = None /\ shell_dialog = None /\ profile_dialog # None

\* handle_main_key, !: open_shell_dialog
KeyBang ==
  /\ MainContext
  /\ shell_dialog' = Some(ShellDialog)
  /\ last_call' = Call("open_shell_dialog", <<>>)
  /\ UNCHANGED <<running, rename_dialog, mkdir_dialog, profile_dialog, env, password_dialog,
                 status_message, sftp, left, right, active, upload_progress,
                 download_progress, delete_dialog, pending_edit, progress, worker,
                 lfs, rfs>>

\* handle_shell_key, Esc in either phase (and q while the output is shown).
ShellKeyEsc ==
  /\ ShellContext
  /\ shell_dialog' = None
  /\ last_call' = Call("Esc", <<>>)
  /\ UNCHANGED <<running, rename_dialog, mkdir_dialog, profile_dialog, env, password_dialog,
                 status_message, sftp, left, right, active, upload_progress,
                 download_progress, delete_dialog, pending_edit, progress, worker,
                 lfs, rfs>>

\* handle_shell_key, a character typed into the command line.
ShellKeyChar ==
  /\ ShellContext
  /\ ~Unwrap(shell_dialog).output
  /\ Len(Unwrap(shell_dialog).input) < MaxInput
  /\ \E c \in {"c", " "} :
       shell_dialog' = Some([Unwrap(shell_dialog) EXCEPT !.input = Append(@, c)])
  /\ last_call' = Call("Char", <<>>)
  /\ UNCHANGED <<running, rename_dialog, mkdir_dialog, profile_dialog, env, password_dialog,
                 status_message, sftp, left, right, active, upload_progress,
                 download_progress, delete_dialog, pending_edit, progress, worker,
                 lfs, rfs>>

\* handle_shell_key, Enter: App::run_shell_command.  An empty command closes
\* the dialog; any other runs (here: one that leaves the local tree alone),
\* the dialog shows its output, and the local panel is loaded again, the
\* result of the load being dropped.
ShellKeyEnter ==
  /\ ShellContext
  /\ ~Unwrap(shell_dialog).output
  /\ IF trim(Unwrap(shell_dialog).input) = <<>>
     THEN /\ shell_dialog' = None
          /\ last_call' = Call("run_shell_command", <<>>)
          /\ UNCHANGED <<left, status_message>>
     ELSE \E rd_ok \in ReadDirOutcomes(lfs, left.path) :
            /\ shell_dialog' = Some([Unwrap(shell_dialog) EXCEPT !.output = TRUE])
            /\ left' = load_local(left, lfs, rd_ok)
            /\ status_message' = Msg("! Exit")
            /\ last_call' = Call("run_shell_command", <<Ev("load_local", "", 0, rd_ok)>>)
  /\ UNCHANGED <<running, rename_dialog, mkdir_dialog, profile_dialog, env, password_dialog,
                 sftp, right, active, upload_progress, download_progress, delete_dialog,
                 pending_edit, progress, worker, lfs, rfs>>

\* The profiles a store holds: one with password and one with key
\* authentication, or none.
StoredProfiles ==
  {[profile |-> Profile(None, None), auth |-> "Password"],
   [profile |-> Profile(None, None), auth |-> "Key"]}

\* handle_main_key, F9 or p: open_profile_dialog with the store as loaded.
KeyF9 ==
  /\ MainContext
  /\ \E profiles \in {{}, StoredProfiles} :
       profile_dialog' = Some(ProfileDialog(profiles))
  /\ last_call' = Call("open_profile_dialog", <<>>)
  /\ UNCHANGED <<running, rename_dialog, mkdir_dialog, shell_dialog, env, password_dialog,
                 status_message, sftp, left, right, active, upload_progress,
                 download_progress, delete_dialog, pending_edit, progress, worker,
                 lfs, rfs>>

\* handle_list_key Esc closes the dialog; Esc in a form or in the delete
\* question returns to the list.
ProfileKeyEsc ==
  /\ ProfileContext
  /\ profile_dialog' = IF Unwrap(profile_dialog).mode = "List" THEN None
                       ELSE Some([Unwrap(profile_dialog) EXCEPT !.mode = "List"])
  /\ last_call' = Call("Esc", <<>>)
  /\ UNCHANGED <<running, rename_dialog, mkdir_dialog, shell_dialog, env, password_dialog,
                 status_message, sftp, left, right, active, upload_progress,
                 download_progress, delete_dialog, pending_edit, progress, worker,
                 lfs, rfs>>

\* handle_list_key n, e and d: the form for a new profile, the form for the
\* selected one, the delete question; e and d need a profile in the list.
ProfileKeyMode ==
  /\ ProfileContext
  /\ Unwrap(profile_dialog).mode = "List"
  /\ \E mode \in {"New", "Edit", "ConfirmDelete"} :
       profile_dialog' =
         IF mode # "New" /\ Unwrap(profile_dialog).profiles = {} THEN profile_dialog
         ELSE Some([Unwrap(profile_dialog) EXCEPT !.mode = mode])
  /\ last_call' = Call("Char", <<>>)
  /\ UNCHANGED <<running, rename_dialog, mkdir_dialog, shell_dialog, env, password_dialog,
                 status_message, sftp, left, right, active, upload_progress,
                 download_progress, delete_dialog, pending_edit, progress, worker,
                 lfs, rfs>>

\* A list Enter that opens the password dialog over the profile dialog.
ProfileListEnterKeepingOpen ==
  \E p \in Unwrap(profile_dialog).profiles :
    /\ profile_dialog' = profile_dialog
    /\ begin_connect(p.profile, p.auth)

\* handle_list_key, Enter: with an empty list nothing; else the selected
\* profile is taken, close_profile_dialog, begin_connect.
ProfileListEnter ==
  \E p \in Unwrap(profile_dialog).profiles :
    /\ profile_dialog' = None
    /\ begin_connect(p.profile, p.auth)

\* Enter in the profile dialog.  In a form or in the delete question it
\* saves or deletes, reports it in the status line and returns to the list.
ProfileKeyEnter ==
  /\ ProfileContext
  /\ IF Unwrap(profile_dialog).mode = "List"
     THEN IF Unwrap(profile_dialog).profiles = {}
          THEN /\ last_call' = Call("Enter", <<>>)
               /\ UNCHANGED <<running, rename_dialog, mkdir_dialog, shell_dialog, profile_dialog,
                              env, password_dialog, status_message, sftp, left, right,
                              active, upload_progress, download_progress, delete_dialog,
                              pending_edit, progress, worker, lfs, rfs>>
          ELSE ProfileListEnter
     ELSE /\ \E saved \in BOOLEAN :
               /\ status_message' = Msg(IF saved THEN "Profil" ELSE "Profil fehlgeschlagen")
               /\ profile_dialog' =
                    Some([mode |-> "List",
                          profiles |-> IF ~saved THEN Unwrap(profile_dialog).profiles
                                       ELSE IF Unwrap(profile_dialog).mode = "ConfirmDelete"
                                       THEN {} ELSE StoredProfiles])
          /\ last_call' = Call("Enter", <<>>)
          /\ UNCHANGED <<running, rename_dialog, mkdir_dialog, shell_dialog, env,
                         password_dialog, sftp, left, right, active, upload_progress,
                         download_progress, delete_dialog, pending_edit, progress,
                         worker, lfs, rfs>>

\* App::new in the home directory.
InitDialogs ==
  /\ AppNew
  /\ lfs = TinyLocalTree
  /\ rfs = TinyRemoteTree
  /\ left = load_local(NewPanel(dirs_or_cwd), lfs, TRUE)
  /\ right = NewPanel(dirs_or_cwd)

\* The keys that open a dialog, the keys of each dialog, and Tab, the cursor
\* and disconnect.
NextDialogs ==
  \/ KeyTab
  \/ KeyUpDown
  \/ KeyF3
  \/ KeyF2
  \/ RenameKeyEnter
  \/ RenameKeyEsc
  \/ KeyF7
  \/ MkdirKeyEnter
  \/ MkdirKeyEsc
  \/ KeyF8
  \/ DeleteKeyEnter
  \/ DeleteKeyEsc
  \/ KeyBang
  \/ ShellKeyChar
  \/ ShellKeyEnter
  \/ ShellKeyEsc
  \/ KeyF9
  \/ ProfileKeyMode
  \/ ProfileKeyEnter
  \/ ProfileKeyEsc
  \/ PasswordKeyChar
  \/ PasswordKeyEnter
  \/ PasswordKeyEsc

SpecDialogs == InitDialogs /\ [][NextDialogs]_vars

\* ------------------------------------------------------------ claim C40
\* The dialogs that are open.
Dialogs ==
  <<password_dialog, delete_dialog, rename_dialog, mkdir_dialog, shell_dialog,
    profile_dialog>>
OpenDialogs == {i \in 1..6 : Dialogs[i] # None}

\* A step opens a dialog only when none was open, except that the password
\* dialog opens in the step that closes the profile dialog.
C40_Step ==
  /\ (delete_dialog = None /\ delete_dialog' # None) => OpenDialogs = {}
  /\ (rename_dialog = None /\ rename_dialog' # None) => OpenDialogs = {}
  /\ (mkdir_dialog = None /\ mkdir_dialog' # None) => OpenDialogs = {}
  /\ (shell_dialog = None /\ shell_dialog' # None) => OpenDialogs = {}
  /\ (profile_dialog = None /\ profile_dialog' # None) => OpenDialogs = {}
  /\ (password_dialog = None /\ password_dialog' # None) =>
       /\ OpenDialogs = {6}
       /\ profile_dialog' = None

\* C40: at most one of the six dialogs is open in any state; a dialog is
\* opened only when none is open, and the password dialog only by the step
\* that closes the profile dialog.
C40_OneDialog == [](Cardinality(OpenDialogs) <= 1) /\ [][C40_Step]_vars

\* Enter on a password profile of the list: the profile dialog is closed and
\* the password dialog is the one open dialog.
C40_Witness ==
  /\ last_call = Call("begin_connect", <<>>)
  /\ OpenDialogs = {1}
  /\ Unwrap(password_dialog).input = <<>>

=============================================================================
